---- MODULE Spec2Model ----
(***************************************************************************)
(* A model of simpleblog3's extension mechanism and attribute cache:       *)
(*   - the registry (extension_map, extension_types) and the dispatch of   *)
(*     extendable attributes (simpleblog/__init__.py),                     *)
(*   - the extension loader and the mixin composition (ext.py, sub.py,     *)
(*     extensions/__init__.py),                                            *)
(*   - the attribute cache (caching.py),                                   *)
(*   - the construction of the blog and of its list of sources, with the   *)
(*     pagination and the feed archives (extensions/paginate.py, feed.py). *)
(*                                                                         *)
(* Helper names the sources use without importing them (first,             *)
(* cached_function) and the Python 2 builtins of the sources (unicode,     *)
(* iteritems, basestring, xrange) are read with their plib / Python 2      *)
(* meaning.                                                                *)
(*                                                                         *)
(* Python values are sequences of one-character strings: "" is <<>>, "ab"  *)
(* is <<"a","b">>; the objects None, 0, False and [] and the two markers   *)
(* of the dispatcher are one-element sequences of a reserved token.        *)
(***************************************************************************)
EXTENDS Integers, Sequences, FiniteSets, TLC

VARIABLES
    extension_map,    \* kind -> sequence of the extension instances of the kind
    extension_types,  \* kind -> name of the live implementation type
    classes,          \* class name -> [bases, defs] of every class created
    names,            \* the configured list of extension names
    pc,               \* where load_blog is
    idx,              \* the position of load_subs in names
    pending,          \* the class load_subs has just yielded
    err,              \* the exception load_blog ended with
    sys_path,         \* the module search path
    subdir,           \* config.get('extension_dir', "")
    oldpath,          \* the copy of sys.path tmp_sys_path holds
    metadata,         \* self.metadata of the Blog load_blog constructs
    cachecfg,         \* the arguments of the `cached` decorator in use
    cachefile,        \* the backing file of the cache
    cacheobj,         \* cache_map[cachename]: the BlogCache and its loaded map
    entities,         \* the entity objects constructed so far
    lastOp,           \* what the last operation did (its calls, its result)
    nops,             \* number of attribute reads and method calls so far
    config,           \* the settings of the blog the extensions of sources read
    all_entries,      \* blog.all_entries, in the order of the directory listing
    sources           \* the (source, format) list blog.sources is being built as

regVars == <<extension_map, extension_types, classes>>
loadVars == <<names, pc, idx, pending, err, sys_path, subdir, oldpath, metadata>>
entVars == <<entities, lastOp, nops>>
cacheVars == <<cachecfg, cachefile, cacheobj>>
srcVars == <<config, all_entries, sources>>
vars == <<extension_map, extension_types, classes, names, pc, idx, pending, err,
          sys_path, subdir, oldpath, metadata, cachecfg, cachefile, cacheobj, entities,
          lastOp, nops, config, all_entries, sources>>

----------------------------------------------------------------------------
(* Bounds *)

MaxExts == 2        \* extensions in the registry of the dispatch specification
MaxNames == 3       \* length of the configured list of extension names
MaxOps == 3         \* entity constructions and attribute reads

----------------------------------------------------------------------------
(* Values *)

noresult == <<"#noresult">>
noreturn == <<"#noreturn">>
PyNone == <<"#None">>
PyZero == <<"#0">>
PyFalse == <<"#False">>
PyEmptyList == <<"#[]">>
Unset == <<"#unset">>
NoArg == <<"#noarg">>
Raised == <<"#raised">>     \* stands for a call that raised instead of returning

\* The config_vars defaults of Blog, BlogEntries, PaginateExtension and
\* FeedExtension; a set that is iterated is held as the sequence of its
\* elements in the order of the iteration.
NoConfig ==
    [index_formats |-> <<"html">>, entry_formats |-> <<"html">>,
     entry_sort_reversed |-> TRUE, page_max_entries |-> 10,
     paginate_formats |-> {"html"}, archive_feeds |-> "None"]

\* Python truth value testing of the values above
Truthy(v) == v \notin {<<>>, PyNone, PyZero, PyFalse, PyEmptyList}

Kinds == {"entry", "page", "blog"}
KindOrder == <<"entry", "page", "blog">>
AttrNames == {"name", "title", "timestamp", "body", "attrs", "pages", "f", "g"}

\* Some of the extendable properties the base type of each kind declares.
ExtendableProps(k) ==
    CASE k = "entry" -> {"name", "title"}
      [] k = "page" -> {"body", "attrs"}
      [] OTHER -> {"pages"}
Falsy == {<<>>, PyNone, PyZero, PyFalse, PyEmptyList}
TagOf == <<"1", "2", "3", "4", "5", "6">>

Min(S) == CHOOSE x \in S : \A y \in S : x <= y

----------------------------------------------------------------------------
(* Classes and method resolution *)

\* The classes of the core, of extensions/__init__.py and of the extension
\* modules of the model; defs holds the ordinary methods a class defines.
\* M1, M2, U2 are entry mixins and P1, P2 page mixins that subclass their
\* marker; G is a page mixin that subclasses object, as GroupingPageMixin.
StaticClasses ==
    [c \in {"object", "BlogConfigUser", "BlogObject", "BlogSource", "BlogEntry",
            "BlogPage", "Blog", "EntryMixin", "PageMixin", "BlogMixin",
            "BlogIndexPage", "M1", "M2", "U2", "P1", "P2", "G"} |->
        CASE c = "object" -> [bases |-> <<>>, defs |-> {}]
          [] c = "BlogIndexPage" -> [bases |-> <<"BlogPage">>, defs |-> {}]
          [] c = "M1" -> [bases |-> <<"EntryMixin">>, defs |-> {"f", "g"}]
          [] c = "M2" -> [bases |-> <<"EntryMixin">>, defs |-> {"f"}]
          [] c = "U2" -> [bases |-> <<"EntryMixin">>, defs |-> {"g"}]
          [] c = "P1" -> [bases |-> <<"PageMixin">>, defs |-> {"f", "g"}]
          [] c = "P2" -> [bases |-> <<"PageMixin">>, defs |-> {"f"}]
          [] c = "G" -> [bases |-> <<"object">>, defs |-> {"f", "h"}]
          [] c = "BlogConfigUser" -> [bases |-> <<"object">>, defs |-> {}]
          [] c = "BlogObject" -> [bases |-> <<"BlogConfigUser">>, defs |-> {}]
          [] c = "BlogSource" -> [bases |-> <<"BlogObject">>, defs |-> {}]
          [] c = "BlogEntry" -> [bases |-> <<"BlogSource">>, defs |-> {"f", "g", "h"}]
          [] c = "BlogPage" -> [bases |-> <<"BlogObject">>, defs |-> {"f", "g", "h"}]
          [] c = "Blog" -> [bases |-> <<"BlogObject">>, defs |-> {"f", "g", "h"}]
          [] OTHER -> [bases |-> <<"BlogConfigUser">>, defs |-> {}]]

BaseType(etype) ==
    CASE etype = "entry" -> "BlogEntry"
      [] etype = "page" -> "BlogPage"
      [] OTHER -> "Blog"

MixinMarker(etype) ==
    CASE etype = "entry" -> "EntryMixin"
      [] etype = "page" -> "PageMixin"
      [] OTHER -> "BlogMixin"

\* The merge step of the C3 linearisation Python applies to the bases of a
\* new class; ok is FALSE where Python raises TypeError.
RECURSIVE C3Merge(_)
C3Merge(seqs) ==
    LET ne == SelectSeq(seqs, LAMBDA s : Len(s) > 0) IN
    IF Len(ne) = 0 THEN [ok |-> TRUE, mro |-> <<>>]
    ELSE
        LET InTail(c) == \E j \in 1..Len(ne) : \E k \in 2..Len(ne[j]) : ne[j][k] = c
            cands == {j \in 1..Len(ne) : ~InTail(ne[j][1])}
        IN  IF cands = {} THEN [ok |-> FALSE, mro |-> <<>>]
            ELSE
                LET c == ne[Min(cands)][1]
                    rest == [j \in 1..Len(ne) |->
                                IF ne[j][1] = c THEN Tail(ne[j]) ELSE ne[j]]
                    r == C3Merge(rest)
                IN  [ok |-> r.ok, mro |-> <<c>> \o r.mro]

RECURSIVE Mro(_, _)
Mro(tbl, c) ==
    LET bases == tbl[c].bases
        parts == [j \in 1..Len(bases) |-> Mro(tbl, bases[j]).mro]
        m == C3Merge(parts \o <<bases>>)
    IN  [ok |-> m.ok, mro |-> <<c>> \o m.mro]

\* type(oldcls)('Extended', bases, {}): ok is FALSE where Python raises
\* TypeError (a base listed twice, or no consistent method resolution order).
CanCreate(tbl, bases) ==
    /\ \A i, j \in 1..Len(bases) : i # j => bases[i] # bases[j]
    /\ C3Merge([j \in 1..Len(bases) |-> Mro(tbl, bases[j]).mro] \o <<bases>>).ok

issubclass(tbl, c, d) == \E i \in 1..Len(Mro(tbl, c).mro) : Mro(tbl, c).mro[i] = d

\* The class whose definition of method m an instance of class c uses.
ResolveMethod(tbl, c, m) ==
    LET mro == Mro(tbl, c).mro
        hits == {i \in 1..Len(mro) : m \in tbl[mro[i]].defs}
    IN  IF hits = {} THEN "none" ELSE mro[Min(hits)]

ExtendedNames == <<"Extended1", "Extended2", "Extended3", "Extended4", "Extended5",
                   "Extended6", "Extended7", "Extended8", "Extended9", "Extended10",
                   "Extended11", "Extended12">>

----------------------------------------------------------------------------
(* Extension classes *)

NoMixin == [k \in Kinds |-> "none"]

\* The extension classes of the model.  dir holds the attribute names of an
\* instance that matter to the registration, each split at its underscores;
\* get and mod say what the class's get- and mod-hooks do.
ExtensionClass(cls) ==
    CASE cls = "Decline" ->
            [dir |-> {<<"entry", "get", "title">>, <<"entry", "mod", "title">>},
             get |-> "decline", mod |-> "app", mixin |-> NoMixin, raises |-> FALSE]
      [] cls = "Supply" ->
            [dir |-> {<<"entry", "get", "title">>, <<"page", "get", "body">>},
             get |-> "value", mod |-> "none", mixin |-> NoMixin, raises |-> FALSE]
      [] cls = "SupplyFalsy" ->
            [dir |-> {<<"entry", "get", "title">>, <<"entry", "post_init">>},
             get |-> "falsy", mod |-> "none", mixin |-> NoMixin, raises |-> FALSE]
      [] cls = "Modify" ->
            [dir |-> {<<"entry", "mod", "title">>, <<"page", "mod", "body">>},
             get |-> "none", mod |-> "app", mixin |-> NoMixin, raises |-> FALSE]
      [] cls = "Replace" ->
            [dir |-> {<<"entry", "mod", "title">>, <<"entry", "post_init">>},
             get |-> "none", mod |-> "const", mixin |-> NoMixin, raises |-> FALSE]
      [] cls = "PostOnly" ->
            [dir |-> {<<"entry", "post_init">>, <<"page", "post_init">>},
             get |-> "none", mod |-> "none", mixin |-> NoMixin, raises |-> FALSE]
      [] cls = "Index" ->
            [dir |-> {<<"blog", "mod", "pages">>},
             get |-> "none", mod |-> "app", mixin |-> NoMixin, raises |-> FALSE]
      [] cls = "MixinOne" ->
            [dir |-> {<<"entry", "mixin">>, <<"page", "mixin">>},
             get |-> "none", mod |-> "none",
             mixin |-> [NoMixin EXCEPT !["entry"] = "M1", !["page"] = "P1"],
             raises |-> FALSE]
      [] cls = "MixinTwo" ->
            [dir |-> {<<"entry", "mixin">>, <<"page", "mixin">>, <<"page", "post_init">>},
             get |-> "none", mod |-> "none",
             mixin |-> [NoMixin EXCEPT !["entry"] = "M2", !["page"] = "P2"],
             raises |-> FALSE]
      [] cls = "UserTwo" ->
            [dir |-> {<<"entry", "mixin">>},
             get |-> "none", mod |-> "none",
             mixin |-> [NoMixin EXCEPT !["entry"] = "U2"], raises |-> FALSE]
      [] cls = "Grouping" ->
            [dir |-> {<<"page", "mixin">>},
             get |-> "none", mod |-> "none",
             mixin |-> [NoMixin EXCEPT !["page"] = "G"], raises |-> FALSE]
      [] cls = "Copyright" ->
            [dir |-> {<<"entry", "years">>, <<"blog", "mod", "default_metadata">>},
             get |-> "none", mod |-> "app", mixin |-> NoMixin, raises |-> FALSE]
      [] cls = "Fold" ->
            [dir |-> {<<"entry", "get", "body">>},
             get |-> "value", mod |-> "none", mixin |-> NoMixin, raises |-> FALSE]
      [] cls = "Feed" ->
            [dir |-> {<<"entry", "mod", "body">>, <<"entry", "mod", "attrs">>,
                      <<"blog", "mod", "required_metadata">>,
                      <<"blog", "mod", "default_metadata">>},
             get |-> "none", mod |-> "app", mixin |-> NoMixin, raises |-> FALSE]
      [] cls = "Quote" ->
            [dir |-> {<<"blog", "mod", "required_metadata">>, <<"blog", "post_init">>},
             get |-> "none", mod |-> "app", mixin |-> NoMixin, raises |-> FALSE]
      [] cls = "SupplyF" ->
            [dir |-> {<<"entry", "get", "f">>},
             get |-> "value", mod |-> "none", mixin |-> NoMixin, raises |-> FALSE]
      [] cls = "ModifyF" ->
            [dir |-> {<<"entry", "mod", "f">>, <<"entry", "mod", "g">>},
             get |-> "none", mod |-> "app", mixin |-> NoMixin, raises |-> FALSE]
      [] cls = "GetRaise" ->
            [dir |-> {<<"entry", "get", "title">>, <<"entry", "get", "body">>},
             get |-> "raise", mod |-> "none", mixin |-> NoMixin, raises |-> FALSE]
      [] cls = "ModRaise" ->
            [dir |-> {<<"entry", "mod", "title">>, <<"entry", "mod", "body">>},
             get |-> "none", mod |-> "raise", mixin |-> NoMixin, raises |-> FALSE]
      [] cls = "Boom" ->
            [dir |-> {<<"entry", "post_init">>},
             get |-> "none", mod |-> "none", mixin |-> NoMixin, raises |-> TRUE]
      [] OTHER ->
            [dir |-> {}, get |-> "none", mod |-> "none", mixin |-> NoMixin,
             raises |-> FALSE]

DispatchClasses ==
    {"Decline", "Supply", "SupplyFalsy", "Modify", "Replace", "PostOnly", "Index"}

\* The extension classes of the specification of failing hooks and of
\* extendable methods.
HookClasses ==
    {"Decline", "Fold", "Feed", "GetRaise", "ModRaise", "MixinOne", "MixinTwo", "SupplyF",
     "ModifyF"}

----------------------------------------------------------------------------
(* Registration: BlogExtension.__init__ *)

\* Variant: only the get- and mod-hooks count.
HasPrefixedItems_hooks(cls, etype) ==
    \E item \in ExtensionClass(cls).dir :
        /\ Len(item) >= 2
        /\ item[1] = etype
        /\ item[2] \in {"get", "mod"}

\* any(item for item in prefixed_items(dir(self), etype + '_')
\*     if not item.endswith('mixin'))
HasPrefixedItems(cls, etype) ==
    \E item \in ExtensionClass(cls).dir :
        /\ Len(item) >= 2
        /\ item[1] = etype
        /\ item[Len(item)] # "mixin"

\* Variant: the mixin is put behind the live type.
MixinBases_behind(tbl, etype, mixin, oldcls) == <<oldcls, mixin>>

\* The bases of the class composed from mixin and the live type oldcls.
MixinBases(tbl, etype, mixin, oldcls) ==
    IF issubclass(tbl, oldcls, MixinMarker(etype))
    THEN <<mixin>> \o tbl[oldcls].bases
    ELSE <<mixin, oldcls>>

\* One pass of the loop over extension_types for one kind.  reg is the
\* registry [map, types, classes, ok]; ok turns FALSE where type() raises.
RegisterKind(reg, inst, etype) ==
    LET r1 == IF HasPrefixedItems(inst.cls, etype)
              THEN [reg EXCEPT !.map[etype] = Append(@, inst)]
              ELSE reg
        mixin == ExtensionClass(inst.cls).mixin[etype]
        oldcls == r1.types[etype]
        bases == MixinBases(r1.classes, etype, mixin, oldcls)
        n == Cardinality(DOMAIN r1.classes \cap {ExtendedNames[i] : i \in 1..Len(ExtendedNames)})
        extcls == ExtendedNames[n + 1]
    IN  IF mixin = "none" THEN r1
        ELSE IF ~CanCreate(r1.classes, bases) THEN [r1 EXCEPT !.ok = FALSE]
        ELSE [r1 EXCEPT !.classes = @ @@ (extcls :> [bases |-> bases, defs |-> {}]),
                        !.types[etype] = extcls]

RECURSIVE RegisterKinds(_, _, _)
RegisterKinds(reg, inst, i) ==
    IF i > Len(KindOrder) \/ ~reg.ok THEN reg
    ELSE RegisterKinds(RegisterKind(reg, inst, KindOrder[i]), inst, i + 1)

\* Variant: an exception of the constructor is swallowed.
RegisterExtension_swallow(reg, inst) ==
    [RegisterKinds([reg EXCEPT !.ok = TRUE], inst, 1) EXCEPT !.ok = TRUE]

\* Variant: a failing constructor undoes every registration made so far.
RegisterExtension_reset(reg, inst) ==
    IF RegisterKinds(reg, inst, 1).ok /\ ~ExtensionClass(inst.cls).raises
    THEN RegisterKinds(reg, inst, 1)
    ELSE [map |-> [k \in Kinds |-> <<>>], types |-> [k \in Kinds |-> BaseType(k)],
          classes |-> reg.classes, ok |-> FALSE]

\* BlogExtension.__init__(config): the registration, then self.post_init().
RegisterExtension(reg, inst) ==
    LET r == RegisterKinds(reg, inst, 1)
    IN  IF r.ok /\ ExtensionClass(inst.cls).raises THEN [r EXCEPT !.ok = FALSE] ELSE r

\* The registry before any extension is loaded (the @extendable decorators).
InitialRegistry ==
    [map |-> [k \in Kinds |-> <<>>],
     types |-> [k \in Kinds |-> BaseType(k)],
     classes |-> StaticClasses,
     ok |-> TRUE]

\* The registry after instances of the classes of clss were created in order.
RECURSIVE LoadAll(_, _, _)
LoadAll(reg, clss, i) ==
    IF i > Len(clss) THEN reg
    ELSE LoadAll(RegisterExtension(reg, [id |-> i, cls |-> clss[i]]), clss, i + 1)

----------------------------------------------------------------------------
(* The loader: sub.py and ext.py *)

NoErr == [type |-> "none", text |-> "", name |-> <<>>]

\* The configured names of the model.
ModuleNames ==
    {<<"m", "-", "1">>, <<"m", "2">>, <<"g", "r">>, <<"i", "x">>, <<"b", "m">>,
     <<"e", "-", "m">>, <<"n", "o">>, <<"c", "r">>}

\* name.replace('-', '_')
Normalize(name) == [i \in 1..Len(name) |-> IF name[i] = "-" THEN "_" ELSE name[i]]

\* The modules of the package simpleblog.extensions, by name: the first
\* subclass of BlogExtension each holds ("none": it holds none), or
\* "missing" where the import raises ImportError.
BuiltinModule(n) ==
    CASE n = <<"m", "_", "1">> -> "MixinOne"
      [] n = <<"m", "2">> -> "MixinTwo"
      [] n = <<"g", "r">> -> "Grouping"
      [] n = <<"i", "x">> -> "Index"
      [] n = <<"b", "m">> -> "Boom"
      [] n = <<"c", "r">> -> "Copyright"
      [] n = <<"e", "_", "m">> -> "none"
      [] OTHER -> "missing"

\* The modules of the user's extension directory.
UserModule(n) ==
    CASE n = <<"m", "2">> -> "UserTwo"
      [] OTHER -> "missing"

\* The top-level modules of that name found further down sys.path (the
\* site directories): a module of an installed distribution, which holds
\* no extension class.
SiteModule(n) ==
    CASE n = <<"c", "r">> -> "none"
      [] OTHER -> "missing"

\* Variant: the user's directory is not searched.
import_module_site(n) == SiteModule(n)

\* import_module(name) while the user's directory is in front of sys.path:
\* the first module of that name along the path.
import_module(n) == IF UserModule(n) # "missing" THEN UserModule(n) ELSE SiteModule(n)

\* Variant: any module is taken to hold an extension class.
ClassFound_any(klass) == TRUE

\* `if not klass` of load_submodule, negated.
ClassFound(klass) == klass # "none"

\* load_submodule("extension", dir, name, BlogExtensionError, BlogExtension)
load_submodule(dir, name) ==
    LET n == Normalize(name)
        user == IF dir # "" THEN import_module(n) ELSE "missing"
        mod == IF user # "missing" THEN user ELSE BuiltinModule(n)
    IN  IF mod = "missing"
        THEN [ok |-> FALSE, klass |-> "none",
              err |-> [type |-> "BlogExtensionError", text |-> "{0} {1} not found!",
                       name |-> n]]
        ELSE IF ~ClassFound(mod)
        THEN [ok |-> FALSE, klass |-> "none",
              err |-> [type |-> "BlogExtensionError", text |-> "no {0} in {1} module!",
                       name |-> n]]
        ELSE [ok |-> TRUE, klass |-> mod, err |-> NoErr]

abspath(dir) == IF dir = "ext" THEN "/cwd/ext" ELSE dir

\* tmp_sys_path up to its yield: the path and the copy it keeps.
EnterPath(path, dir) ==
    IF dir # ""
    THEN [path |-> <<abspath(dir)>> \o path, old |-> path]
    ELSE [path |-> path, old |-> PyNone]

\* The finally clause of tmp_sys_path.
RestorePath(path, old) == IF Truthy(old) THEN old ELSE path

----------------------------------------------------------------------------
(* Dispatch: check_extensions and extendable_attr.make_method *)

\* What the hook `key` of instance inst returns when called with arg (NoArg:
\* called without a value); fv is the falsy value a falsy get-hook returns.
HookReturn(inst, key, arg, fv) ==
    LET c == ExtensionClass(inst.cls)
        tag == <<TagOf[inst.id]>>
    IN  CASE key[2] = "get" ->
                (CASE c.get = "decline" -> noresult
                   [] c.get = "falsy" -> fv
                   [] c.get = "raise" -> Raised
                   [] OTHER -> <<"g">> \o tag)
          [] key[2] = "mod" ->
                (CASE c.mod = "const" -> <<"c">> \o tag
                   [] c.mod = "raise" -> Raised
                   [] OTHER -> IF arg = NoArg THEN tag ELSE arg \o tag)
          [] OTHER -> <<"p">> \o tag

\* Variants of the loop exit: never leaving early, and leaving on any value
\* whatever the mode.
BreaksLoop_never(result, modifying) == FALSE

BreaksLoop_anymode(result, modifying) == result \notin {noresult, noreturn}

\* Variant: an exception of a hook or of the wrapped function is swallowed.
Propagates_never(out) == FALSE

\* check_extensions and meth hold no try statement: a call that raises ends
\* them there.
Propagates(out) == out = Raised

\* Whether check_extensions leaves its loop after a hook left `result`.
BreaksLoop(result, modifying) ==
    (~modifying) /\ result \notin {noresult, noreturn}

\* The loop of check_extensions from position i on; log collects the calls.
RECURSIVE check_loop(_, _, _, _, _, _, _)
check_loop(exts, i, key, result, modifying, fv, log) ==
    IF i > Len(exts) THEN [result |-> result, log |-> log]
    ELSE IF key \notin ExtensionClass(exts[i].cls).dir
    THEN check_loop(exts, i + 1, key, result, modifying, fv, log)
    ELSE
        LET arg == IF result # noreturn /\ modifying THEN result ELSE NoArg
            after(out, res, log2) ==
                IF Propagates(out) THEN [result |-> Raised, log |-> log2]
                ELSE IF BreaksLoop(res, modifying)
                THEN [result |-> res, log |-> log2]
                ELSE check_loop(exts, i + 1, key, res, modifying, fv, log2)
            call(out) ==
                after(out, IF result = noreturn THEN result ELSE out,
                      Append(log, [ext |-> exts[i].id, key |-> key, arg |-> arg,
                                   ret |-> out]))
        IN  call(HookReturn(exts[i], key, arg, fv))

check_extensions(map, etype, key, result, modifying, fv) ==
    check_loop(map[etype], 1, key, result, modifying, fv, <<>>)

\* Variant: the wrapped function is called on any falsy result.
CallsOriginal_falsy(result) == result = noresult \/ ~Truthy(result)

\* Whether meth calls the wrapped function after the get-hooks left `result`.
CallsOriginal(result) == result = noresult

\* meth of make_method(etype, name): the get-hooks, the wrapped function
\* (which returns base, or raises: base = Raised), the mod-hooks.
meth(map, etype, name, base, fv) ==
    LET return(m, r1) == [result |-> m.result, log |-> m.log, base |-> r1]
        modify(r1, log1) ==
            IF Propagates(r1) THEN [result |-> Raised, log |-> log1, base |-> Raised]
            ELSE return(check_loop(map[etype], 1, <<etype, "mod", name>>, r1, TRUE,
                                   fv, log1), r1)
        original(g) ==
            IF Propagates(g.result)
            THEN [result |-> Raised, log |-> g.log, base |-> Raised]
            ELSE IF CallsOriginal(g.result)
            THEN modify(base, Append(g.log, [ext |-> 0, key |-> <<etype, "base", name>>,
                                             arg |-> NoArg, ret |-> base]))
            ELSE modify(g.result, g.log)
    IN  original(check_extensions(map, etype, <<etype, "get", name>>, noresult, FALSE,
                                  fv))

----------------------------------------------------------------------------
(* The attribute cache: caching.py *)

NoCache == [reverse |-> FALSE, objtype |-> "none", attr |-> "none"]
NoFile == [exists |-> FALSE, lines |-> <<>>]
\* cache_map[cachename] of a process: made counts the BlogCache objects
\* constructed for the name, loaded and cache are the cached_property `cache`
\* of the one the name is bound to.
NoCacheObj == [made |-> 0, loaded |-> FALSE, cache |-> <<>>]

\* The caches of the model: cached(titles_file) of title.py, the same with
\* reverse=True, and cached(timestamps_file, reverse=True, objtype=Timestamp)
\* of timestamps.py.
CacheConfigs ==
    {[reverse |-> FALSE, objtype |-> "none", attr |-> "title"],
     [reverse |-> TRUE, objtype |-> "none", attr |-> "title"],
     [reverse |-> TRUE, objtype |-> "Timestamp", attr |-> "timestamp"]}

sep == " "
Whitespace == {" ", "\n", "\t"}

\* The code point order of the characters the model writes to a file.
Ord(c) ==
    CASE c = "\n" -> 10 [] c = " " -> 32 [] c = "-" -> 45
      [] c = "0" -> 48 [] c = "1" -> 49 [] c = "2" -> 50 [] c = "3" -> 51
      [] c = "5" -> 53 [] c = "7" -> 55 [] c = "9" -> 57
      [] c = "a" -> 97 [] c = "b" -> 98 [] c = "c" -> 99 [] c = "g" -> 103
      [] c = "x" -> 120 [] c = "y" -> 121
      [] OTHER -> 0

\* s < t for Python strings
LessStr(s, t) ==
    \E i \in 1..(Len(t)) :
        /\ \A j \in 1..(i - 1) : j <= Len(s) /\ s[j] = t[j]
        /\ (i > Len(s) \/ (i - 1 < Len(s) /\ Ord(s[i]) < Ord(t[i])))

\* Variant: the lines are written in descending order.
sorted_descending(S) ==
    CHOOSE q \in [1..Cardinality(S) -> S] :
        \A i, j \in 1..Cardinality(S) : i < j => LessStr(q[j], q[i])

\* sorted(lines)
RECURSIVE sorted(_)
sorted(S) ==
    IF S = {} THEN <<>>
    ELSE LET m == CHOOSE x \in S : \A y \in S \ {x} : LessStr(x, y)
         IN  <<m>> \o sorted(S \ {m})

\* s.strip()
RECURSIVE strip(_)
strip(s) ==
    IF Len(s) = 0 THEN s
    ELSE IF s[1] \in Whitespace THEN strip(Tail(s))
    ELSE IF s[Len(s)] \in Whitespace THEN strip(SubSeq(s, 1, Len(s) - 1))
    ELSE s

Positions(s, c) == {i \in 1..Len(s) : s[i] = c}

\* s.split(c, 1)
split(s, c) ==
    IF Positions(s, c) = {} THEN <<s>>
    ELSE LET i == Min(Positions(s, c))
         IN  <<SubSeq(s, 1, i - 1), SubSeq(s, i + 1, Len(s))>>

\* s.rsplit(c, 1)
rsplit(s, c) ==
    IF Positions(s, c) = {} THEN <<s>>
    ELSE LET i == CHOOSE x \in Positions(s, c) : \A y \in Positions(s, c) : y <= x
         IN  <<SubSeq(s, 1, i - 1), SubSeq(s, i + 1, Len(s))>>

reversed(t) == [i \in 1..Len(t) |-> t[Len(t) + 1 - i]]

Digits == {"0", "1", "2", "3", "5", "7", "9"}

\* Timestamp(data).  A file mtime is <<"#float", hour, minute, second>>, a
\* Timestamp <<"#ts", hour, minute, second>>, one digit each; the date
\* fields, which are carried like the hour, are left out.  A string is
\* parsed by datetime(*map(int, data.split('-'))): the second is 0.
Timestamp(data) ==
    IF Len(data) = 4 /\ data[1] = "#float" THEN <<"#ts", data[2], data[3], data[4]>>
    ELSE IF /\ Len(data) = 5
            /\ data[1] = "0" /\ data[2] \in Digits
            /\ data[3] = "-"
            /\ data[4] = "0" /\ data[5] \in Digits
    THEN <<"#ts", data[2], data[5], "0">>
    ELSE Raised

\* unicode(v): Timestamp.__str__ joins the fields up to the minute, each
\* formatted {:02d}; a string is itself.
unicode(v) ==
    IF Len(v) = 4 /\ v[1] = "#ts" THEN <<"0", v[2], "-", "0", v[3]>> ELSE v

\* objtype(value) where the cache declares a type
Convert(objtype, v) == IF objtype = "Timestamp" THEN Timestamp(v) ELSE v

\* The tuple the `cache` property makes of one line.
ParseLine(cfg, line) ==
    LET t == IF cfg.reverse THEN reversed(rsplit(strip(line), sep))
             ELSE split(strip(line), sep)
    IN  IF cfg.objtype = "none" THEN t
        ELSE IF Len(t) < 2 THEN Raised
        ELSE <<t[1], Convert(cfg.objtype, t[2])>>

\* Whether the tuple made of a line makes the `cache` property raise.
Malformed(t) == t = Raised \/ Len(t) # 2 \/ t[2] = Raised

\* The exception a line raises: t[1] of a one-element tuple is an
\* IndexError, dict() of one is a ValueError; Timestamp raises the ValueError
\* of int() for a field that is no number and else the TypeError or
\* ValueError of datetime(): TypeError for too few fields.
LineError(cfg, line) ==
    LET t == IF cfg.reverse THEN reversed(rsplit(strip(line), sep))
             ELSE split(strip(line), sep)
    IN  IF Len(t) < 2 THEN (IF cfg.objtype = "none" THEN "ValueError" ELSE "IndexError")
        ELSE IF \E i \in 1..Len(t[2]) : t[2][i] \notin Digits \cup {"-"}
        THEN "ValueError"
        ELSE "TypeError"

\* dict(expr) of two-element tuples: a later tuple replaces an earlier one
\* with the same key.
DictOf(ts) ==
    [k \in {ts[i][1] : i \in 1..Len(ts)} |->
        ts[CHOOSE i \in 1..Len(ts) :
               /\ ts[i][1] = k
               /\ \A j \in 1..Len(ts) : ts[j][1] = k => j <= i][2]]

\* Variant: a line that cannot be loaded is skipped.
LoadCache_skip(cfg, file) ==
    IF ~file.exists THEN [ok |-> TRUE, map |-> <<>>, exc |-> "none"]
    ELSE [ok |-> TRUE,
          map |-> DictOf(SelectSeq([i \in 1..Len(file.lines) |->
                                       ParseLine(cfg, file.lines[i])],
                                   LAMBDA t : ~Malformed(t))),
          exc |-> "none"]

\* BlogCache.cache: {} where the file cannot be opened, else dict() of the
\* tuples of the lines; ok is FALSE where that raises, at the first line
\* that cannot be loaded.
LoadCache(cfg, file) ==
    IF ~file.exists THEN [ok |-> TRUE, map |-> <<>>, exc |-> "none"]
    ELSE LET ts == [i \in 1..Len(file.lines) |-> ParseLine(cfg, file.lines[i])]
             bad == {i \in 1..Len(ts) : Malformed(ts[i])}
         IN  IF bad # {}
             THEN [ok |-> FALSE, map |-> <<>>,
                   exc |-> LineError(cfg, file.lines[Min(bad)])]
             ELSE [ok |-> TRUE, map |-> DictOf(ts), exc |-> "none"]

\* Variant: the key is written first whatever the cache declares.
FormatLine_keyfirst(cfg, k, v) == unicode(k) \o <<sep>> \o unicode(v) \o <<"\n">>

\* One line of BlogCache.save
FormatLine(cfg, k, v) ==
    IF cfg.reverse THEN unicode(v) \o <<sep>> \o unicode(k) \o <<"\n">>
    ELSE unicode(k) \o <<sep>> \o unicode(v) \o <<"\n">>

\* BlogCache.save: the lines written to the file
save(cfg, map) == sorted({FormatLine(cfg, k, map[k]) : k \in DOMAIN map})

\* Variant: the cache never holds the key.
CacheHit_never(map, key) == FALSE

\* `cache[self.cachekey]` of fcache does not raise KeyError.
CacheHit(map, key) == key \in DOMAIN map

\* Variant: the decorators wrap the undecorated function only.
Wrapped_base(map, etype, name, base, fv) ==
    [result |-> base,
     log |-> <<[ext |-> 0, key |-> <<etype, "base", name>>, arg |-> NoArg, ret |-> base]>>,
     base |-> base]

\* The function the decorators of as_extended are applied to: meth.
Wrapped(map, etype, name, base, fv) == meth(map, etype, name, base, fv)

\* Variant: a failed computation is taken for a value.
ComputeFailed_never(value) == FALSE

\* value = f(self, ...) or objtype(value) of fcache raises.
ComputeFailed(value) == value = Raised

\* What the undecorated function of a cached attribute may return.
RawValues(cfg) ==
    IF cfg.objtype = "Timestamp"
    THEN {<<"#float", "9", "0", "0">>, <<"#float", "9", "5", "7">>}
    ELSE {<<"x">>, <<"y">>, <<>>}

CacheKeys == {<<"a">>, <<"b">>}

\* The backing files a run may find: none, one with a record for key b, and
\* that one followed by a line without separator or, for a typed cache, by
\* a line whose value is no timestamp.
InitialFiles(cfg) ==
    LET good == IF cfg.objtype = "Timestamp"
                THEN <<"0", "9", "-", "0", "5", " ", "b", "\n">>
                ELSE IF cfg.reverse THEN <<"x", " ", "b", "\n">>
                ELSE <<"b", " ", "x", "\n">>
        nosep == <<"c", "\n">>
        novalue == <<"x", " ", "c", "\n">>
    IN  {NoFile,
         [exists |-> TRUE, lines |-> <<good>>],
         [exists |-> TRUE, lines |-> <<good, nosep>>]}
        \cup (IF cfg.objtype = "Timestamp"
              THEN {[exists |-> TRUE, lines |-> <<good, novalue>>]}
              ELSE {})

\* Variant: the map is replaced by one that holds the new key only.
Store_fresh(map, key, value) == [k \in {key} |-> value]

\* The mapping map with key set to value
Store(map, key, value) ==
    [k \in (DOMAIN map) \cup {key} |-> IF k = key THEN value ELSE map[k]]

----------------------------------------------------------------------------
(* Entities: construction and extendable properties *)

BaseVals == {<<"b">>, <<>>}

\* What an operation did: the value it returned, the hook and base calls it
\* made (log), where the value came from (src), where the wrapped function
\* ran, what it returned (raw), the arguments of a method call (args) and
\* the exception the operation ended with (exc).
NoOp ==
    [op |-> "none", ent |-> 0, attr |-> "", ret |-> Unset, log |-> <<>>,
     src |-> "none", raw |-> Unset, args |-> NoArg, exc |-> "none"]

\* BlogObject.__init__ and, for an entry, self.cachekey = name.
\* dict holds the values cached_property has set, memo the results
\* cached_method keeps for the instance, by method name and arguments.
NewObject(k, cls, name) ==
    [kind |-> k, cls |-> cls, cachekey |-> name, dict |-> [a \in AttrNames |-> Unset],
     memo |-> <<>>]

\* _newinit of extendable(cls): the class's own __init__, then the post_init
\* hooks, called with result=noreturn.
newinit(map, etype) ==
    check_loop(map[etype], 1, <<etype, "post_init">>, noreturn, FALSE, <<>>,
               <<[ext |-> 0, key |-> <<etype, "init">>, arg |-> NoArg, ret |-> PyNone]>>)

\* Variant: the instance never holds the value.
IsCached_never(ent, a) == FALSE

\* cached_property.__get__: whether the instance already holds the value.
IsCached(ent, a) == ent.dict[a] # Unset

\* extension_types[k](...): an instance of the live type of kind k is made.
NewEntity(k, name) ==
    /\ pc = "ready"
    /\ nops < MaxOps
    /\ LET r == newinit(extension_map, k)
       IN  /\ entities' = Append(entities, NewObject(k, extension_types[k], name))
           /\ lastOp' = [NoOp EXCEPT !.op = "new", !.ent = Len(entities) + 1,
                                     !.ret = PyNone, !.log = r.log]
    /\ nops' = nops + 1
    /\ UNCHANGED <<srcVars, regVars, loadVars, cacheVars>>

\* BlogIndexPage(blog, format, alpha) in IndexesExtension.blog_mod_pages: a
\* subclass of BlogPage whose __init__ calls BlogObject.__init__ only.
NewIndexPage ==
    /\ pc = "ready"
    /\ nops < MaxOps
    /\ \E i \in 1..Len(extension_map["blog"]) : extension_map["blog"][i].cls = "Index"
    /\ entities' = Append(entities, NewObject("page", "BlogIndexPage", <<>>))
    /\ lastOp' = [NoOp EXCEPT !.op = "new", !.ent = Len(entities) + 1, !.ret = PyNone,
                              !.log = <<[ext |-> 0, key |-> <<"page", "init">>,
                                         arg |-> NoArg, ret |-> PyNone]>>]
    /\ nops' = nops + 1
    /\ UNCHANGED <<srcVars, regVars, loadVars, cacheVars>>

\* The falsy values a get-hook of attribute a of kind k may return: all of
\* them where an instance of the kind has such a hook, else an arbitrary one.
FalsyReturns(k, a) ==
    IF \E i \in 1..Len(extension_map[k]) :
            /\ <<k, "get", a>> \in ExtensionClass(extension_map[k][i].cls).dir
            /\ ExtensionClass(extension_map[k][i].cls).get = "falsy"
    THEN Falsy
    ELSE {PyNone}

\* Reading the extendable property a of entity e, where the entity's own
\* implementation returns one of bases (Raised: it raises).  cached_property
\* sets the value on the instance when the decorated meth has returned.
ReadAttrFrom(e, a, bases) ==
    /\ pc = "ready"
    /\ a \in ExtendableProps(entities[e].kind)
    /\ nops < MaxOps
    /\ nops' = nops + 1
    /\ IF IsCached(entities[e], a)
       THEN /\ lastOp' = [NoOp EXCEPT !.op = "read", !.ent = e, !.attr = a,
                                      !.ret = entities[e].dict[a], !.src = "memo"]
            /\ UNCHANGED entities
       ELSE \E base \in bases, fv \in FalsyReturns(entities[e].kind, a) :
                LET r == meth(extension_map, entities[e].kind, a, base, fv)
                IN  IF r.result = Raised
                    THEN /\ UNCHANGED entities
                         /\ lastOp' = [NoOp EXCEPT !.op = "read", !.ent = e, !.attr = a,
                                                   !.log = r.log, !.src = "raised",
                                                   !.exc = "Exception"]
                    ELSE /\ entities' = [entities EXCEPT ![e].dict[a] = r.result]
                         /\ lastOp' = [NoOp EXCEPT !.op = "read", !.ent = e, !.attr = a,
                                                   !.ret = r.result, !.log = r.log,
                                                   !.src = "computed", !.raw = r.result]
    /\ UNCHANGED <<srcVars, regVars, loadVars, cacheVars>>

\* Reading the extendable property a of entity e.
ReadAttr(e, a) == ReadAttrFrom(e, a, BaseVals)

\* Some of the extendable methods the base type of each kind declares:
\* BlogEntry.body(format, params) and BlogEntry.template(format).
ExtendableMethods(k) == IF k = "entry" THEN {"body"} ELSE {}

\* The arguments of the calls of the model: two formats.
MethodArgs == {<<"h">>, <<"r">>}

\* Variant: the method keeps no results.
MethodCached_never(ent, m, args) == FALSE

\* cached_method, the attrtype of extendable_method: whether the instance
\* holds a result of method m for the arguments args.
MethodCached(ent, m, args) == <<m, args>> \in DOMAIN ent.memo

\* The extensible attributes the mixins of the model declare (the defs of
\* StaticClasses), which the base type of the kind declares too.
DeclaredProps == {"f", "g"}

\* Variant: only the classes decorated with @extendable are extended.
IsExtended_decorated(c) == \E k \in Kinds : c = BaseType(k)

\* Whether the extensible attributes class c declares have been replaced
\* by their dispatching form: extend_attributes runs on a base type when
\* @extendable decorates it and on a mixin when it is woven.
IsExtended(c) ==
    \/ \E k \in Kinds : c = BaseType(k)
    \/ \E x \in {"MixinOne", "MixinTwo", "UserTwo", "Grouping"}, k \in Kinds :
            c = ExtensionClass(x).mixin[k]

\* Reading, on entity e, the extensible attribute m its class inherits from
\* the first class of its method resolution order that declares m; the
\* function of that class returns the name of the class.
ReadDeclared(e, m) ==
    /\ pc = "ready"
    /\ m \in DeclaredProps
    /\ nops < MaxOps
    /\ nops' = nops + 1
    /\ IF IsCached(entities[e], m)
       THEN /\ lastOp' = [NoOp EXCEPT !.op = "read", !.ent = e, !.attr = m,
                                      !.ret = entities[e].dict[m], !.src = "memo"]
            /\ UNCHANGED entities
       ELSE \E owner \in {ResolveMethod(classes, entities[e].cls, m)} :
            \E r \in {IF IsExtended(owner)
                       THEN meth(extension_map, entities[e].kind, m, <<owner>>, PyNone)
                       ELSE [result |-> <<owner>>,
                             log |-> <<[ext |-> 0,
                                        key |-> <<entities[e].kind, "base", m>>,
                                        arg |-> NoArg, ret |-> <<owner>>]>>,
                             base |-> <<owner>>]} :
                IF r.result = Raised
                THEN /\ UNCHANGED entities
                     /\ lastOp' = [NoOp EXCEPT !.op = "read", !.ent = e, !.attr = m,
                                               !.log = r.log, !.src = "raised",
                                               !.exc = "Exception"]
                ELSE /\ entities' = [entities EXCEPT ![e].dict[m] = r.result]
                     /\ lastOp' = [NoOp EXCEPT !.op = "read", !.ent = e, !.attr = m,
                                               !.ret = r.result, !.log = r.log,
                                               !.src = "computed", !.raw = r.result]
    /\ UNCHANGED <<srcVars, regVars, loadVars, cacheVars>>

\* Calling the extendable method m of entity e with the arguments args.
CallMethod(e, m, args) ==
    /\ pc = "ready"
    /\ m \in ExtendableMethods(entities[e].kind)
    /\ nops < MaxOps
    /\ nops' = nops + 1
    /\ LET call == [NoOp EXCEPT !.op = "call", !.ent = e, !.attr = m, !.args = args]
       IN  IF MethodCached(entities[e], m, args)
           THEN /\ lastOp' = [call EXCEPT !.ret = entities[e].memo[<<m, args>>],
                                          !.src = "memo"]
                /\ UNCHANGED entities
           ELSE \E base \in {<<"b">>, Raised} :
                    LET r == meth(extension_map, entities[e].kind, m, base, <<>>)
                    IN  IF r.result = Raised
                        THEN /\ UNCHANGED entities
                             /\ lastOp' = [call EXCEPT !.log = r.log, !.src = "raised",
                                                       !.exc = "Exception"]
                        ELSE /\ entities' =
                                    [entities EXCEPT
                                        ![e].memo = Store(@, <<m, args>>, r.result)]
                             /\ lastOp' = [call EXCEPT !.ret = r.result, !.log = r.log,
                                                       !.src = "computed",
                                                       !.raw = r.result]
    /\ UNCHANGED <<srcVars, regVars, loadVars, cacheVars>>


\* Variant: the lookup in cache_map always misses.
InCacheMap_never(obj) == FALSE

\* cacheobj = cache_map[cachename] raises no KeyError.
InCacheMap(obj) == obj.made > 0

\* Reading, on entry e, the extendable property the `cached` decorator is
\* applied to: cached_property, then fcache, then the decorated meth.
CachedRead(e) ==
    /\ pc = "ready"
    /\ nops < MaxOps
    /\ entities[e].kind = "entry"
    /\ nops' = nops + 1
    /\ LET a == cachecfg.attr
           key == entities[e].cachekey
           made == IF InCacheMap(cacheobj) THEN cacheobj.made ELSE cacheobj.made + 1
           ld == IF InCacheMap(cacheobj) /\ cacheobj.loaded
                 THEN [ok |-> TRUE, map |-> cacheobj.cache, exc |-> "none"]
                 ELSE LoadCache(cachecfg, cachefile)
           read == [NoOp EXCEPT !.op = "read", !.ent = e, !.attr = a]
       IN  IF IsCached(entities[e], a)
           THEN /\ lastOp' = [read EXCEPT !.ret = entities[e].dict[a], !.src = "memo"]
                /\ UNCHANGED <<entities, cachefile, cacheobj>>
           ELSE IF ~ld.ok
           THEN /\ lastOp' = [read EXCEPT !.src = "raised", !.exc = ld.exc]
                /\ cacheobj' = [made |-> made, loaded |-> FALSE, cache |-> <<>>]
                /\ UNCHANGED <<entities, cachefile>>
           ELSE IF CacheHit(ld.map, key)
           THEN /\ lastOp' = [read EXCEPT !.ret = ld.map[key], !.src = "cache"]
                /\ entities' = [entities EXCEPT ![e].dict[a] = ld.map[key]]
                /\ cacheobj' = [made |-> made, loaded |-> TRUE, cache |-> ld.map]
                /\ UNCHANGED cachefile
           ELSE \E base \in RawValues(cachecfg) \cup {Raised} :
                    LET r == Wrapped(extension_map, "entry", a, base, <<>>)
                        value == Convert(cachecfg.objtype, r.result)
                        map2 == Store(ld.map, key, value)
                    IN  IF ComputeFailed(r.result) \/ ComputeFailed(value)
                        THEN /\ lastOp' = [read EXCEPT !.log = r.log, !.src = "raised",
                                                       !.exc = "Exception"]
                             /\ cacheobj' = [made |-> made, loaded |-> TRUE, cache |-> ld.map]
                             /\ UNCHANGED <<entities, cachefile>>
                        ELSE /\ lastOp' = [read EXCEPT !.ret = value, !.log = r.log,
                                                       !.src = "computed",
                                                       !.raw = r.result]
                             /\ entities' = [entities EXCEPT ![e].dict[a] = value]
                             /\ cacheobj' = [made |-> made, loaded |-> TRUE, cache |-> map2]
                             /\ cachefile' =
                                    [exists |-> TRUE, lines |-> save(cachecfg, map2)]
    /\ UNCHANGED <<srcVars, regVars, loadVars, cachecfg>>

\* blog.all_entries of a run: one entry for each entry file.
AllEntries(types) ==
    <<NewObject("entry", types["entry"], <<"a">>), NewObject("entry", types["entry"], <<"b">>)>>

\* The process ends and the program is run again with the same
\* configuration: the objects of the old run are gone, the file stays, and
\* the entries are constructed anew.
Restart ==
    /\ pc = "ready"
    /\ nops < MaxOps
    /\ nops' = nops + 1
    /\ entities' = AllEntries(extension_types)
    /\ cacheobj' = NoCacheObj
    /\ lastOp' = [NoOp EXCEPT !.op = "restart"]
    /\ UNCHANGED <<srcVars, regVars, loadVars, cachecfg, cachefile>>

SeqsUpTo(S, n) == UNION {[1..m -> S] : m \in 0..n}

InitDispatch ==
    \E clss \in SeqsUpTo(DispatchClasses, MaxExts) :
        LET reg == LoadAll(InitialRegistry, clss, 1)
        IN  /\ extension_map = reg.map
            /\ extension_types = reg.types
            /\ classes = reg.classes
            /\ names = clss
            /\ pc = "ready"
            /\ idx = Len(clss)
            /\ pending = "none"
            /\ err = NoErr
            /\ sys_path = <<"site">>
            /\ subdir = ""
            /\ oldpath = PyNone
            /\ metadata = <<>>
            /\ cachecfg = NoCache
            /\ cachefile = NoFile
            /\ cacheobj = NoCacheObj
            /\ entities = <<NewObject("blog", reg.types["blog"], <<>>)>>
            /\ lastOp = NoOp
            /\ nops = 0
            /\ config = NoConfig
            /\ all_entries = <<>>
            /\ sources = <<>>

NextDispatch ==
    \/ \E k \in {"entry", "page"} : NewEntity(k, <<"a">>)
    \/ NewIndexPage
    \/ \E e \in 1..Len(entities), a \in AttrNames : ReadAttr(e, a)

SpecDispatch == InitDispatch /\ [][NextDispatch]_vars

\* The specification of failing hooks and of extendable methods: one entry
\* of a loaded blog has its properties read and its methods called.
InitHooks ==
    \E clss \in SeqsUpTo(HookClasses, MaxExts) :
        LET reg == LoadAll(InitialRegistry, clss, 1)
        IN  /\ reg.ok
            /\ extension_map = reg.map
            /\ extension_types = reg.types
            /\ classes = reg.classes
            /\ names = clss
            /\ pc = "ready"
            /\ idx = Len(clss)
            /\ pending = "none"
            /\ err = NoErr
            /\ sys_path = <<"site">>
            /\ subdir = ""
            /\ oldpath = PyNone
            /\ metadata = <<>>
            /\ cachecfg = NoCache
            /\ cachefile = NoFile
            /\ cacheobj = NoCacheObj
            /\ entities = <<NewObject("entry", reg.types["entry"], <<"a">>)>>
            /\ lastOp = NoOp
            /\ nops = 0
            /\ config = NoConfig
            /\ all_entries = <<>>
            /\ sources = <<>>

NextHooks ==
    \/ \E e \in 1..Len(entities), a \in {"title"} :
            ReadAttrFrom(e, a, {<<"b">>, Raised})
    \/ \E e \in 1..Len(entities), m \in {"body"}, args \in MethodArgs :
            CallMethod(e, m, args)
    \/ \E e \in 1..Len(entities), m \in DeclaredProps : ReadDeclared(e, m)

SpecHooks == InitHooks /\ [][NextHooks]_vars

----------------------------------------------------------------------------
(* load_blog: initialize, ext.load, the construction of the blog *)

Init ==
    /\ names \in SeqsUpTo(ModuleNames, MaxNames)
    /\ subdir \in {"", "ext"}
    /\ extension_map = InitialRegistry.map
    /\ extension_types = InitialRegistry.types
    /\ classes = InitialRegistry.classes
    /\ pc = "start"
    /\ idx = 0
    /\ pending = "none"
    /\ err = NoErr
    /\ sys_path = <<"site">>
    /\ oldpath = PyNone
    /\ metadata = <<>>
    /\ cachecfg = NoCache
    /\ cachefile = NoFile
    /\ cacheobj = NoCacheObj
    /\ entities = <<>>
    /\ lastOp = NoOp
    /\ nops = 0
    /\ config = NoConfig
    /\ all_entries = <<>>
    /\ sources = <<>>

\* initialize(config): ext.load is called only for a non-empty list; load
\* makes the generator load_subs, which has not started yet.
Initialize ==
    /\ pc = "start"
    /\ pc' = IF names = <<>> THEN "loaded" ELSE "loading"
    /\ UNCHANGED <<srcVars, regVars, entVars, cacheVars, names, idx, pending, err, sys_path,
                   subdir, oldpath, metadata>>

\* The for loop of load asks load_subs for the next pair: the generator
\* enters tmp_sys_path when it starts, calls load_submodule for the next
\* name, and leaves tmp_sys_path when the names are used up or the call
\* raises.
NextSub ==
    /\ pc = "loading"
    /\ LET p == IF idx = 0 THEN EnterPath(sys_path, subdir)
                ELSE [path |-> sys_path, old |-> oldpath]
       IN  IF idx = Len(names)
           THEN /\ pc' = "loaded"
                /\ sys_path' = RestorePath(p.path, p.old)
                /\ oldpath' = p.old
                /\ UNCHANGED <<pending, err>>
           ELSE LET r == load_submodule(subdir, names[idx + 1])
                IN  IF r.ok
                    THEN /\ pc' = "instantiate"
                         /\ pending' = r.klass
                         /\ sys_path' = p.path
                         /\ oldpath' = p.old
                         /\ UNCHANGED err
                    ELSE /\ pc' = "failed"
                         /\ err' = r.err
                         /\ sys_path' = RestorePath(p.path, p.old)
                         /\ oldpath' = p.old
                         /\ UNCHANGED pending
    /\ UNCHANGED <<srcVars, regVars, entVars, cacheVars, names, idx, subdir, metadata>>

\* mod.extension = klass(config) in the body of the for loop.  When the
\* constructor raises, the generator stays suspended inside tmp_sys_path and
\* is closed whenever it is collected: the path is restored then, or not
\* before the process ends.
Instantiate ==
    /\ pc = "instantiate"
    /\ LET r == RegisterExtension(
                    [map |-> extension_map, types |-> extension_types,
                     classes |-> classes, ok |-> TRUE],
                    [id |-> idx + 1, cls |-> pending])
       IN  /\ extension_map' = r.map
           /\ extension_types' = r.types
           /\ classes' = r.classes
           /\ IF r.ok
              THEN /\ pc' = "loading"
                   /\ idx' = idx + 1
                   /\ pending' = "none"
                   /\ UNCHANGED <<err, sys_path>>
              ELSE /\ pc' = "failed"
                   /\ err' = [type |-> IF ExtensionClass(pending).raises
                                       THEN "Exception" ELSE "TypeError",
                              text |-> "", name |-> <<>>]
                   /\ sys_path' \in {sys_path, RestorePath(sys_path, oldpath)}
                   /\ UNCHANGED <<idx, pending>>
    /\ UNCHANGED <<srcVars, entVars, cacheVars, names, subdir, oldpath, metadata>>

\* Variant: the blog may be constructed before initialize(config) is called.
BlogConstructible_early(p) == p \in {"start", "loaded"}

\* load_blog constructs the blog when initialize(config) has returned.
BlogConstructible(p) == p = "loaded"

\* The metadata the blog file may hold: a mapping of keys to values.  The
\* key a mod-hook of required_metadata or default_metadata adds is the tag
\* of its instance; c stands for charset.
BlogFiles ==
    {[k \in S |-> <<"f">>] : S \in {{}, {"1"}, {"1", "c"}, {"1", "2"}}}

\* The items of a Python set or the keys of a dict held as a sequence.
Keys(q) == {q[i] : i \in 1..Len(q)}

\* Variant: no key is ever found missing.
MissingKeys_none(required, loaded) == {}

\* The keys of required_metadata for which `key not in self.metadata`.
MissingKeys(required, loaded) == Keys(required) \ DOMAIN loaded

\* self.metadata.setdefault(key, value.format(**self.metadata)) for each
\* item of default_metadata.
SetDefaults(loaded, defaults) ==
    [k \in DOMAIN loaded \cup Keys(defaults) |->
        IF k \in DOMAIN loaded THEN loaded[k] ELSE <<"d">>]

\* blog = extension_types['blog'](config, opts.blogfile): Blog.__init__
\* loads the blog file, checks required_metadata, applies default_metadata;
\* _newinit then calls the blog_post_init hooks.  The set required_metadata
\* is iterated in no particular order.
ConstructBlog ==
    /\ BlogConstructible(pc)
    /\ \E loaded \in BlogFiles :
       \E req \in {meth(extension_map, "blog", "required_metadata", <<>>, PyNone)} :
          IF MissingKeys(req.result, loaded) # {}
          THEN \E key \in MissingKeys(req.result, loaded) :
                  /\ pc' = IF pc = "loaded" THEN "aborted" ELSE pc
                  /\ err' = [type |-> "BlogMetadataError",
                             text |-> "{} missing from blog metadata",
                             name |-> <<key>>]
                  /\ metadata' = loaded
                  /\ lastOp' = [NoOp EXCEPT !.op = "new", !.log = req.log,
                                            !.src = "raised",
                                            !.exc = "BlogMetadataError"]
                  /\ UNCHANGED entities
          ELSE \E def \in {meth(extension_map, "blog", "default_metadata", <<"c">>,
                                PyNone)} :
                  /\ pc' = IF pc = "loaded" THEN "ready" ELSE pc
                  /\ metadata' = SetDefaults(loaded, def.result)
                  /\ entities' = Append(entities,
                                        NewObject("blog", extension_types["blog"], <<>>))
                  /\ lastOp' = [NoOp EXCEPT
                                    !.op = "new", !.ent = Len(entities) + 1,
                                    !.ret = PyNone,
                                    !.log = req.log \o def.log
                                            \o newinit(extension_map, "blog").log]
                  /\ UNCHANGED err
    /\ UNCHANGED <<srcVars, regVars, cacheVars, nops, names, idx, pending, sys_path, subdir,
                   oldpath>>

Next ==
    \/ Initialize
    \/ NextSub
    \/ Instantiate
    \/ ConstructBlog
    \/ \E k \in {"entry", "page"} : NewEntity(k, <<"a">>)
    \/ NewIndexPage

Spec == Init /\ [][Next]_vars

\* The specification of the construction of the blog: the extensions are
\* loaded, load_blog constructs the Blog from one of the blog files.
BlogClasses == {"Quote", "Feed", "Copyright"}

InitBlog ==
    \E clss \in SeqsUpTo(BlogClasses, MaxExts) :
        LET reg == LoadAll(InitialRegistry, clss, 1)
        IN  /\ extension_map = reg.map
            /\ extension_types = reg.types
            /\ classes = reg.classes
            /\ names = clss
            /\ pc = "loaded"
            /\ idx = Len(clss)
            /\ pending = "none"
            /\ err = NoErr
            /\ sys_path = <<"site">>
            /\ subdir = ""
            /\ oldpath = PyNone
            /\ metadata = <<>>
            /\ cachecfg = NoCache
            /\ cachefile = NoFile
            /\ cacheobj = NoCacheObj
            /\ entities = <<>>
            /\ lastOp = NoOp
            /\ nops = 0
            /\ config = NoConfig
            /\ all_entries = <<>>
            /\ sources = <<>>

NextBlog ==
    \/ ConstructBlog
    \/ \E k \in {"entry", "page"} : NewEntity(k, <<"a">>)

SpecBlog == InitBlog /\ [][NextBlog]_vars

----------------------------------------------------------------------------
(* The cache specification: entries of a loaded blog read a cached attribute *)

\* The registries of the cache specification, as lists of extension classes.
CacheRegistries ==
    {<<>>, <<"Modify">>, <<"Supply">>, <<"Decline", "Modify">>}

InitCache ==
    \E clss \in CacheRegistries, cfg \in CacheConfigs : \E file \in InitialFiles(cfg) :
        LET reg == LoadAll(InitialRegistry, clss, 1)
        IN  /\ extension_map = reg.map
            /\ extension_types = reg.types
            /\ classes = reg.classes
            /\ names = clss
            /\ pc = "ready"
            /\ idx = Len(clss)
            /\ pending = "none"
            /\ err = NoErr
            /\ sys_path = <<"site">>
            /\ subdir = ""
            /\ oldpath = PyNone
            /\ metadata = <<>>
            /\ cachecfg = cfg
            /\ cachefile = file
            /\ cacheobj = NoCacheObj
            /\ entities = AllEntries(reg.types)
            /\ lastOp = NoOp
            /\ nops = 0
            /\ config = NoConfig
            /\ all_entries = <<>>
            /\ sources = <<>>

NextCache ==
    \/ \E name \in CacheKeys : NewEntity("entry", name)
    \/ \E e \in 1..Len(entities) : CachedRead(e)
    \/ Restart

SpecCache == InitCache /\ [][NextCache]_vars

----------------------------------------------------------------------------
(* Sources: Blog.sources and the pagination extension (paginate.py) *)

\* An entry is [name, timestamp]; a timestamp is <<year, month, day>>.
Stamps == {<<1, 1, 1>>, <<1, 2, 1>>, <<2, 1, 1>>}

\* datetime.__lt__ on the fields of a timestamp
Before(a, b) ==
    \/ a[1] < b[1]
    \/ a[1] = b[1] /\ a[2] < b[2]
    \/ a[1] = b[1] /\ a[2] = b[2] /\ a[3] < b[3]

\* sorted(seq, key=..., reverse=reverse) where key[i] is the key of seq[i]: a
\* stable sort, elements with equal keys keep their order also when reverse
\* is true.
sorted_by(seq, key, reverse) ==
    LET n == Len(seq)
        precedes(i, j) == IF reverse THEN Before(key[j], key[i])
                                     ELSE Before(key[i], key[j])
        place(i) == Cardinality({j \in 1..n :
                        precedes(j, i) \/ (key[j] = key[i] /\ j <= i)})
    IN  [p \in 1..n |-> seq[CHOOSE i \in 1..n : place(i) = p]]

\* seq[start:end] for start, end >= 0
slice(seq, start, end) ==
    LET hi == IF end < Len(seq) THEN end ELSE Len(seq)
    IN  IF start >= hi THEN <<>> ELSE SubSeq(seq, start + 1, hi)

\* divmod(a, b) for a >= 0: floor division, the remainder has the sign of b.
\* exc names the exception when the call raises.
divmod(a, b) ==
    IF b = 0 THEN [exc |-> "ZeroDivisionError", q |-> 0, r |-> 0]
    ELSE IF b > 0 THEN [exc |-> "none", q |-> a \div b, r |-> a % b]
    ELSE LET q == 0 - ((a + (0 - b) - 1) \div (0 - b))
         IN  [exc |-> "none", q |-> q, r |-> a - q * b]

\* str(n) of a small number
str(n) == <<<<"0", "1", "2", "3", "4", "5", "6", "7", "8", "9">>[n + 1]>>

BlogIndex == [cls |-> "BlogIndex", urlshort |-> <<"/">>]

IsBlogEntries(source) == source.cls \in {"BlogIndex", "PageEntries"}

\* BlogEntries.entries, with _get_entries of BlogIndex and of PageEntries
RECURSIVE entries(_)
entries(source) ==
    LET got == IF source.cls = "BlogIndex" THEN all_entries
               ELSE slice(entries(source.orig_source), source.index_start,
                          source.index_end)
    IN  sorted_by(got, [i \in 1..Len(got) |-> got[i].timestamp],
                  config.entry_sort_reversed)

\* Blog.sources before its own hooks: index_entries(format) for every index
\* format, then every entry in every entry format.
BlogSources(index_entries) ==
    LET nf == Len(config.entry_formats)
    IN  [i \in 1..Len(config.index_formats) |->
            [source |-> index_entries[config.index_formats[i]],
             format |-> config.index_formats[i]]]
        \o [i \in 1..(Len(all_entries) * nf) |->
            [source |-> [cls |-> "BlogEntry",
                         name |-> all_entries[((i - 1) \div nf) + 1].name],
             format |-> config.entry_formats[((i - 1) % nf) + 1]]]

num_pages(source, max_entries) ==
    LET d == divmod(Len(entries(source)), max_entries)
    IN  [exc |-> d.exc, ret |-> d.q + (IF d.r > 0 THEN 1 ELSE 0)]

\* PageEntries.__init__
PageEntries(source, pagenum) ==
    [cls |-> "PageEntries", orig_source |-> source, pagenum |-> pagenum,
     index_start |-> pagenum * config.page_max_entries,
     index_end |-> pagenum * config.page_max_entries + config.page_max_entries,
     urlshort |-> source.urlshort]

\* PaginateExtension.paginate
paginate(source, format) ==
    /\ format \in config.paginate_formats
    /\ IsBlogEntries(source)
    /\ Len(entries(source)) > config.page_max_entries

\* The loop of PaginateExtension.blog_mod_sources over srcs[i..]; exc names
\* the exception when num_pages raises.
RECURSIVE newsources(_, _)
newsources(srcs, i) ==
    IF i > Len(srcs) THEN [exc |-> "none", ret |-> <<>>]
    ELSE LET s == srcs[i]
             rest == newsources(srcs, i + 1)
             n == num_pages(s.source, config.page_max_entries)
         IN  IF ~paginate(s.source, s.format)
             THEN [exc |-> rest.exc, ret |-> <<s>> \o rest.ret]
             ELSE IF n.exc # "none" THEN [exc |-> n.exc, ret |-> <<>>]
             ELSE [exc |-> rest.exc,
                   ret |-> [p \in 1..(IF n.ret > 0 THEN n.ret ELSE 0) |->
                               [source |-> PageEntries(s.source, p - 1),
                                format |-> s.format]]
                           \o rest.ret]

\* Variant: the page number is left out of the path.
make_urlpath_unnumbered(self, urlshort, pagenum) ==
    IF pagenum # self.pagenum /\ pagenum = 0 THEN urlshort
    ELSE urlshort \o <<"i", "n", "d", "e", "x">>

\* PageEntries.make_urlpath
make_urlpath(self, urlshort, pagenum) ==
    IF pagenum # self.pagenum /\ pagenum = 0 THEN urlshort
    ELSE urlshort \o <<"i", "n", "d", "e", "x">>
         \o (IF pagenum > 0 THEN str(pagenum) ELSE <<>>)

\* BlogEntries._get_urlpath and PageEntries._get_urlpath
urlpath(source) ==
    IF source.cls = "PageEntries"
    THEN make_urlpath(source, source.urlshort, source.pagenum)
    ELSE source.urlshort \o <<"i", "n", "d", "e", "x">>

\* BlogPage.__init__: self.urlpath = "{0}.{1}".format(source.urlpath, format)
PageUrlpath(source, format) == urlpath(source) \o <<".", format>>

\* One element of the tuple PageEntries.make_pagelinks returns.
pagelink(self, format, test, ofs, label) ==
    IF self.pagenum * ofs < test
    THEN <<"<a href=\"">>
         \o make_urlpath(self, self.urlshort, self.pagenum + ofs)
         \o (IF self.pagenum + ofs > 0 THEN <<".", format>> ELSE <<>>)
         \o <<"\">", label, "</a>">>
    ELSE <<>>

make_pagelinks(self, format) ==
    <<pagelink(self, format, 0, 0 - 1, "Newer Entries"),
      pagelink(self, format,
               num_pages(self.orig_source, config.page_max_entries).ret - 1, 1,
               "Older Entries")>>

\* The specification of the pagination: blog.sources is read with the
\* pagination extension loaded, then pages are asked for their links.
MaxEntries == 4
PageSizes == {0 - 1, 0, 1, 2, 3}

InitPaginate ==
    /\ extension_map = InitialRegistry.map
    /\ extension_types = InitialRegistry.types
    /\ classes = InitialRegistry.classes
    /\ names = <<>>
    /\ pc = "sources"
    /\ idx = 0
    /\ pending = "none"
    /\ err = NoErr
    /\ sys_path = <<"site">>
    /\ subdir = ""
    /\ oldpath = PyNone
    /\ metadata = <<>>
    /\ cachecfg = NoCache
    /\ cachefile = NoFile
    /\ cacheobj = NoCacheObj
    /\ entities = <<>>
    /\ lastOp = NoOp
    /\ nops = 0
    /\ \E stamps \in SeqsUpTo(Stamps, MaxEntries) :
           all_entries = [i \in 1..Len(stamps) |-> [name |-> i, timestamp |-> stamps[i]]]
    /\ \E xf \in {<<"html">>, <<"atom", "html">>},
          rev \in BOOLEAN, pm \in PageSizes, pf \in {{"html"}, {"html", "atom"}} :
           config = [NoConfig EXCEPT !.index_formats = xf,
                                     !.entry_sort_reversed = rev,
                                     !.page_max_entries = pm,
                                     !.paginate_formats = pf]
    /\ sources = <<>>

\* Blog.sources, whose only hook is PaginateExtension.blog_mod_sources
ReadSources ==
    /\ pc = "sources"
    /\ \E r \in {newsources(BlogSources([f \in {"html", "atom"} |-> BlogIndex]), 1)} :
          IF r.exc = "none"
          THEN /\ sources' = r.ret
               /\ pc' = "paginated"
               /\ err' = err
          ELSE /\ sources' = sources
               /\ pc' = "aborted"
               /\ err' = [type |-> r.exc, text |-> "", name |-> <<>>]
    /\ lastOp' = [NoOp EXCEPT !.op = "sources"]
    /\ UNCHANGED <<regVars, cacheVars, entities, nops, config, all_entries, names,
                   idx, pending, sys_path, subdir, oldpath, metadata>>

\* page.source.make_pagelinks(page.format) of the i-th source
MakePagelinks(i) ==
    /\ pc = "paginated"
    /\ i \in 1..Len(sources)
    /\ sources[i].source.cls = "PageEntries"
    /\ lastOp' = [NoOp EXCEPT !.op = "make_pagelinks", !.ent = i,
                              !.ret = make_pagelinks(sources[i].source,
                                                     sources[i].format)]
    /\ UNCHANGED <<regVars, loadVars, cacheVars, srcVars, entities, nops>>

NextPaginate == ReadSources \/ \E i \in 1..(2 * MaxEntries) : MakePagelinks(i)

SpecPaginate == InitPaginate /\ [][NextPaginate]_vars

----------------------------------------------------------------------------
(* Feed archives: FeedExtension and the feed entries (feed.py) *)

\* The keys itertools.groupby yields: one for every run of equal keys.
groupby(keys) ==
    LET kept == {i \in 1..Len(keys) : i = 1 \/ keys[i] # keys[i - 1]}
        nth(n) == CHOOSE i \in kept : Cardinality({j \in kept : j <= i}) = n
    IN  [n \in 1..Cardinality(kept) |-> keys[nth(n)]]

\* eattrs[:eattrs.index(self.archive_feeds) + 1], as the number of fields
FeedFields ==
    CASE config.archive_feeds = "year" -> 1
      [] config.archive_feeds = "month" -> 2
      [] OTHER -> 3

\* Variant: the timestamps are grouped in the order of the entries.
archive_feed_args_unsorted ==
    groupby([i \in 1..Len(all_entries) |->
                SubSeq(all_entries[i].timestamp, 1, FeedFields)])

\* FeedExtension.archive_feed_args
archive_feed_args ==
    LET stamps == [i \in 1..Len(all_entries) |-> all_entries[i].timestamp]
        ordered == sorted_by(stamps, stamps, FALSE)
    IN  groupby([i \in 1..Len(ordered) |-> SubSeq(ordered[i], 1, FeedFields)])

\* set(known_archive_feed_formats).intersection(self.index_formats)
archive_feed_formats ==
    SelectSeq(config.index_formats, LAMBDA f : f = "atom")

\* BlogCurrentFeedEntries.__init__, which BlogArchiveFeedEntries inherits;
\* exc names the exception when it raises.
BlogCurrentFeedEntries(cls, arglist, args) ==
    LET found == {i \in 1..Len(arglist) : arglist[i] = args}
        i == IF found = {} THEN 0
             ELSE (CHOOSE k \in found : \A j \in found : k <= j) - 1
        is_current_feed == cls = "BlogCurrentFeedEntries"
    IN  [cls |-> cls, args |-> args, argindex |-> i,
         exc |-> IF found = {} THEN "ValueError"
                 ELSE IF is_current_feed # (i = Len(arglist) - 1)
                 THEN "AssertionError"
                 ELSE "none"]

\* FeedExtension.current_feed_entries
current_feed_entries(arglist) ==
    IF arglist = <<>>
    THEN [cls |-> "BlogCurrentFeedEntries", args |-> <<>>, argindex |-> 0,
          exc |-> "IndexError"]
    ELSE BlogCurrentFeedEntries("BlogCurrentFeedEntries", arglist,
                                arglist[Len(arglist)])

\* Blog.index_entries with FeedExtension.blog_mod_index_entries as its hook
blog_mod_index_entries(arglist) ==
    [format \in {"html", "atom"} |->
        IF config.archive_feeds # "None" /\ format = "atom"
        THEN current_feed_entries(arglist)
        ELSE BlogIndex]

\* What FeedExtension.blog_mod_sources adds to sources: an archive feed for
\* every period but the last, in every archive feed format.
archive_sources(arglist) ==
    IF config.archive_feeds = "None" THEN <<>>
    ELSE LET nf == Len(archive_feed_formats)
         IN  [i \in 1..((Len(arglist) - (IF arglist = <<>> THEN 0 ELSE 1)) * nf) |->
                 [source |-> BlogCurrentFeedEntries("BlogArchiveFeedEntries", arglist,
                                                    arglist[((i - 1) \div nf) + 1]),
                  format |-> archive_feed_formats[((i - 1) % nf) + 1]]]

\* The exception a list of sources was built with, "none" if with none
Failure(srcs) ==
    LET failed == {i \in 1..Len(srcs) : srcs[i].source.cls \in
                       {"BlogCurrentFeedEntries", "BlogArchiveFeedEntries"}
                       /\ srcs[i].source.exc # "none"}
    IN  IF failed = {} THEN "none"
        ELSE srcs[CHOOSE i \in failed : \A j \in failed : i <= j].source.exc

\* The specification of the feed archives: blog.sources is read with the
\* feed extension loaded.
InitFeed ==
    /\ extension_map = InitialRegistry.map
    /\ extension_types = InitialRegistry.types
    /\ classes = InitialRegistry.classes
    /\ names = <<>>
    /\ pc = "sources"
    /\ idx = 0
    /\ pending = "none"
    /\ err = NoErr
    /\ sys_path = <<"site">>
    /\ subdir = ""
    /\ oldpath = PyNone
    /\ metadata = <<>>
    /\ cachecfg = NoCache
    /\ cachefile = NoFile
    /\ cacheobj = NoCacheObj
    /\ entities = <<>>
    /\ lastOp = NoOp
    /\ nops = 0
    /\ \E stamps \in SeqsUpTo(Stamps, MaxEntries) :
           all_entries = [i \in 1..Len(stamps) |-> [name |-> i, timestamp |-> stamps[i]]]
    /\ \E xf \in {<<"html">>, <<"atom", "html">>, <<"html", "atom">>},
          ef \in {<<>>, <<"html">>}, af \in {"None", "year", "month", "day"} :
           config = [NoConfig EXCEPT !.index_formats = xf, !.entry_formats = ef,
                                     !.archive_feeds = af]
    /\ sources = <<>>

\* Blog.sources, whose hooks are those of FeedExtension
ReadFeedSources ==
    /\ pc = "sources"
    /\ \E arglist \in {archive_feed_args} :
       \E srcs \in {BlogSources(blog_mod_index_entries(arglist))
                     \o archive_sources(arglist)} :
          IF Failure(srcs) = "none"
          THEN /\ sources' = srcs
               /\ pc' = "fed"
               /\ err' = err
          ELSE /\ sources' = sources
               /\ pc' = "aborted"
               /\ err' = [type |-> Failure(srcs), text |-> "", name |-> <<>>]
    /\ lastOp' = [NoOp EXCEPT !.op = "sources"]
    /\ UNCHANGED <<regVars, cacheVars, entities, nops, config, all_entries, names,
                   idx, pending, sys_path, subdir, oldpath, metadata>>

NextFeed == ReadFeedSources

SpecFeed == InitFeed /\ [][NextFeed]_vars

----------------------------------------------------------------------------
(* Properties of the dispatch *)

\* The calls of the last operation, by phase.
CallsOf(phase) == SelectSeq(lastOp.log, LAMBDA c : c.key[2] = phase)

\* The instances of kind k that define the hook `key`, in registry order.
Defining(k, key) ==
    SelectSeq(extension_map[k], LAMBDA x : key \in ExtensionClass(x.cls).dir)

LastKind == entities[lastOp.ent].kind

RanChain == lastOp.op = "read" /\ lastOp.log # <<>>

\* The value the mod-chain starts from: the base call's, else the last get call's.
BaseResult ==
    IF Len(CallsOf("base")) > 0 THEN CallsOf("base")[1].ret
    ELSE CallsOf("get")[Len(CallsOf("get"))].ret

\* The value the mod-chain was given: the first mod call's argument, or the
\* final result when no mod-hook exists.
ModChainInput ==
    IF Len(CallsOf("mod")) > 0 THEN CallsOf("mod")[1].arg ELSE lastOp.ret

\* C1: get-dispatch.  The get-hooks are tried in load order; every one
\* before the last one called returned noresult; the calls stop before the
\* end of the list only at a hook that returned something else, whose value
\* is the base result; the entity's own implementation is called exactly
\* when every get-hook was called and declined.
C1_GetDispatch ==
    RanChain =>
        LET G == Defining(LastKind, <<LastKind, "get", lastOp.attr>>)
            gc == CallsOf("get")
            bc == CallsOf("base")
        IN  /\ Len(gc) <= Len(G)
            /\ \A j \in 1..Len(gc) : gc[j].ext = G[j].id
            /\ \A j \in 1..(Len(gc) - 1) : gc[j].ret = noresult
            /\ Len(gc) < Len(G) => Len(gc) >= 1 /\ gc[Len(gc)].ret # noresult
            /\ Len(bc) <= 1
            /\ Len(bc) = 1 <=> (\A j \in 1..Len(gc) : gc[j].ret = noresult)
            /\ Len(bc) = 1 => Len(gc) = Len(G)
            /\ Len(bc) = 0 => ModChainInput = gc[Len(gc)].ret
            /\ \A i, j \in 1..Len(lastOp.log) :
                    lastOp.log[i].key[2] = "get" /\ lastOp.log[j].key[2] # "get" => i < j

\* A read in which the first of two get-hooks of the kind supplied the base
\* result and the second was not called.
C1_Witness ==
    /\ RanChain
    /\ Len(Defining(LastKind, <<LastKind, "get", lastOp.attr>>)) = 2
    /\ Len(CallsOf("get")) = 1
    /\ CallsOf("get")[1].ret = <<"g", "1">>
    /\ Len(CallsOf("base")) = 0
    /\ lastOp.ret = <<"g", "1">>

\* C2: modify-chain.  Every instance of the kind that defines the mod-hook
\* is called exactly once, in load order; the first is given the base
\* result, each later one the return value of the one before, and the
\* return value of the last is the final value.
C2_ModChain ==
    RanChain =>
        LET key == <<LastKind, "mod", lastOp.attr>>
            M == Defining(LastKind, key)
            mc == CallsOf("mod")
        IN  /\ Len(mc) = Len(M)
            /\ \A j \in 1..Len(mc) : mc[j].ext = M[j].id
            /\ \A j \in 1..Len(mc) :
                    mc[j].arg = (IF j = 1 THEN BaseResult ELSE mc[j - 1].ret)
            /\ \A j \in 1..Len(mc) : mc[j].ret = HookReturn(M[j], key, mc[j].arg, <<>>)
            /\ lastOp.ret = (IF Len(mc) = 0 THEN BaseResult ELSE mc[Len(mc)].ret)
            /\ \A i, j \in 1..Len(lastOp.log) :
                    lastOp.log[i].key[2] # "mod" /\ lastOp.log[j].key[2] = "mod" => i < j

\* A read with two mod-hooks: the final value is modE2(modE1(base)), which
\* differs from modE1(modE2(base)).
C2_Witness ==
    /\ RanChain
    /\ Len(CallsOf("mod")) = 2
    /\ CallsOf("mod")[1].ret = BaseResult \o <<"1">>
    /\ lastOp.ret = BaseResult \o <<"1", "2">>

\* C9: declining versus falsy.  A get-hook that returned anything but
\* noresult, a falsy value included, ended the get-phase: it is the last
\* get call, the entity's own implementation is not called, and its value is
\* what the mod-chain is given; a hook that returned noresult did not.
\* (Hooks return values or noresult; noreturn is the marker _newinit passes
\* to check_extensions and no hook returns it.)
C9_FalsySupplies ==
    RanChain =>
        LET gc == CallsOf("get")
            G == Defining(LastKind, <<LastKind, "get", lastOp.attr>>)
        IN  \A j \in 1..Len(gc) :
                IF gc[j].ret = noresult
                THEN (j < Len(G) => j < Len(gc)) /\ (j = Len(G) => Len(CallsOf("base")) = 1)
                ELSE /\ j = Len(gc)
                     /\ Len(CallsOf("base")) = 0
                     /\ ModChainInput = gc[j].ret

\* A read in which a get-hook returned None: a later get-hook of the kind
\* was not called, nor the base, and a mod-hook was given None.
C9_Witness ==
    /\ RanChain
    /\ Len(Defining(LastKind, <<LastKind, "get", lastOp.attr>>)) = 2
    /\ Len(CallsOf("get")) = 1
    /\ CallsOf("get")[1].ret = PyNone
    /\ Len(CallsOf("base")) = 0
    /\ Len(CallsOf("mod")) = 1
    /\ CallsOf("mod")[1].arg = PyNone

\* C4: memoization.  A read of an extendable property whose value the
\* entity does not hold yet runs the chain and stores the final value on the
\* entity; a read of one it holds returns the stored value and calls no
\* hook and no base implementation; a stored value is never replaced.  So
\* the chain runs exactly once for each entity and attribute.
C4_Memoized ==
    [][ /\ \A e \in 1..Len(entities), a \in AttrNames :
              entities[e].dict[a] # Unset => entities'[e].dict[a] = entities[e].dict[a]
        /\ (lastOp'.op = "read" /\ nops' = nops + 1) =>
              LET e == lastOp'.ent
                  a == lastOp'.attr
              IN  IF entities[e].dict[a] # Unset
                  THEN /\ lastOp'.log = <<>>
                       /\ lastOp'.ret = entities[e].dict[a]
                  ELSE /\ lastOp'.log # <<>>
                       /\ lastOp'.ret # Unset
                       /\ entities'[e].dict[a] = lastOp'.ret ]_vars

\* A later read of an attribute that has a get-hook and a mod-hook called
\* nothing and returned the stored value.
C4_Witness ==
    /\ lastOp.op = "read"
    /\ lastOp.log = <<>>
    /\ Len(Defining(LastKind, <<LastKind, "get", lastOp.attr>>)) > 0
    /\ Len(Defining(LastKind, <<LastKind, "mod", lastOp.attr>>)) > 0
    /\ lastOp.ret = entities[lastOp.ent].dict[lastOp.attr]
    /\ Len(lastOp.ret) > 1

\* C10: post-init hooks.  Every construction of an entity of kind K runs
\* its constructor body and then calls the K_post_init hook of every
\* loaded extension that defines one, once each, in load order.
C10_PostInitHooks ==
    lastOp.op = "new" =>
        LET P == Defining(LastKind, <<LastKind, "post_init">>)
        IN  /\ Len(lastOp.log) = 1 + Len(P)
            /\ lastOp.log[1].key[2] = "init"
            /\ \A j \in 1..Len(P) :
                    /\ lastOp.log[j + 1].key = <<LastKind, "post_init">>
                    /\ lastOp.log[j + 1].ext = P[j].id

\* The same, for the entities made by the live type of their kind.
C10_LiveTypeHooks ==
    (lastOp.op = "new" /\ entities[lastOp.ent].cls = extension_types[LastKind])
        => C10_PostInitHooks

\* C18: hook failure.  When a read or a call ended in an exception, the
\* call that raised is the last one made: no get-hook, base implementation
\* or mod-hook was called after it (no fallback to the base after a get-hook
\* raised, no later extension), the calls before it are those of the
\* dispatch order, nothing was returned, and the entity holds no value for
\* the attribute (no result for the method and its arguments).
C18_HookFailure ==
    (lastOp.op \in {"read", "call"} /\ lastOp.src = "raised") =>
        LET log == lastOp.log
            n == Len(log)
            G == Defining(LastKind, <<LastKind, "get", lastOp.attr>>)
            M == Defining(LastKind, <<LastKind, "mod", lastOp.attr>>)
            gc == CallsOf("get")
            bc == CallsOf("base")
            mc == CallsOf("mod")
        IN  /\ n >= 1
            /\ log[n].ret = Raised
            /\ \A j \in 1..(n - 1) : log[j].ret # Raised
            /\ lastOp.ret = Unset
            /\ lastOp.exc # "none"
            /\ Len(gc) <= Len(G) /\ \A j \in 1..Len(gc) : gc[j].ext = G[j].id
            /\ Len(mc) <= Len(M) /\ \A j \in 1..Len(mc) : mc[j].ext = M[j].id
            /\ log[n].key[2] = "get" => (bc = <<>> /\ mc = <<>>)
            /\ log[n].key[2] = "base" => (Len(bc) = 1 /\ mc = <<>>)
            /\ log[n].key[2] = "mod" => mc[Len(mc)].ret = Raised
            /\ Len(gc) + Len(bc) + Len(mc) = n
            /\ lastOp.op = "read" => entities[lastOp.ent].dict[lastOp.attr] = Unset
            /\ lastOp.op = "call" =>
                    <<lastOp.attr, lastOp.args>> \notin DOMAIN entities[lastOp.ent].memo

\* A read in which the get-hook declined, the base implementation returned
\* and the first of two mod-hooks raised: the second was not called and the
\* entity holds no title.
C18_Witness ==
    /\ lastOp.op = "read"
    /\ lastOp.src = "raised"
    /\ Len(CallsOf("get")) = 1
    /\ Len(CallsOf("base")) = 1
    /\ Len(Defining("entry", <<"entry", "mod", "title">>)) = 2
    /\ Len(CallsOf("mod")) = 1
    /\ CallsOf("mod")[1].ret = Raised
    /\ entities[lastOp.ent].dict["title"] = Unset

\* C19, as stated: every call of an extendable method runs the dispatch:
\* a get-hook or the base implementation is called.
C19_EveryCallDispatches ==
    lastOp.op = "call" => Len(CallsOf("get")) + Len(CallsOf("base")) >= 1

\* C19, amended: extendable methods are memoized for each entity by their
\* arguments.  A call with arguments the entity holds no result for runs the
\* full dispatch (the get-hooks, the base implementation if they all
\* declined, every mod-hook), whatever results it holds for other
\* arguments, and keeps the value returned; a call with arguments it holds a
\* result for makes no call and returns that result.
C19_MemoizedByArgs ==
    [][ (lastOp'.op = "call" /\ nops' = nops + 1) =>
          LET e == lastOp'.ent
              key == <<lastOp'.attr, lastOp'.args>>
              k == entities[e].kind
              G == Defining(k, <<k, "get", lastOp'.attr>>)
              M == Defining(k, <<k, "mod", lastOp'.attr>>)
              log == lastOp'.log
              mc == SelectSeq(log, LAMBDA c : c.key[2] = "mod")
          IN  IF key \in DOMAIN entities[e].memo
              THEN /\ log = <<>>
                   /\ lastOp'.ret = entities[e].memo[key]
                   /\ entities' = entities
              ELSE /\ log # <<>>
                   /\ log[1].key[2] = (IF Len(G) > 0 THEN "get" ELSE "base")
                   /\ lastOp'.exc = "none" =>
                         /\ Len(mc) = Len(M)
                         /\ lastOp'.ret = log[Len(log)].ret
                         /\ entities'[e].memo = Store(entities[e].memo, key, lastOp'.ret)
                   /\ lastOp'.exc # "none" => entities' = entities ]_vars

\* A second call of body with the same format, on an entry whose body has
\* a mod-hook: no hook and no base implementation was called, and the value
\* returned is the one the first call left.
C19_Witness ==
    /\ lastOp.op = "call"
    /\ lastOp.log = <<>>
    /\ lastOp.args = <<"h">>
    /\ Len(Defining("entry", <<"entry", "mod", "body">>)) = 1
    /\ lastOp.ret = entities[lastOp.ent].memo[<<"body", <<"h">>>>]
    /\ lastOp.ret = <<"b", "1">>
    /\ <<"body", <<"r">>>> \in DOMAIN entities[lastOp.ent].memo

\* The mixins of kind k that declare m, in the order they were woven.
Declaring(k, m) ==
    SelectSeq([i \in 1..Len(names) |-> ExtensionClass(names[i]).mixin[k]],
              LAMBDA x : x # "none" /\ m \in StaticClasses[x].defs)

\* C27: hooks compose with mixins.  A read of an extensible attribute that
\* woven mixins declare, on an instance of the live type, runs the dispatch
\* of the kind: where a get-hook supplies a value no implementation is
\* called; else the implementation called is the one of the mixin woven
\* last among those that declare the attribute, and the base type's only
\* where no mixin declares it; every mod-hook of the attribute is applied,
\* in load order, each to the result of the one before.
C27_HooksComposeWithMixins ==
    (lastOp.op = "read" /\ lastOp.attr \in DeclaredProps /\ lastOp.src = "computed") =>
        LET k == LastKind
            m == lastOp.attr
            G == Defining(k, <<k, "get", m>>)
            M == Defining(k, <<k, "mod", m>>)
            D == Declaring(k, m)
            gc == CallsOf("get")
            bc == CallsOf("base")
            mc == CallsOf("mod")
        IN  /\ entities[lastOp.ent].cls = extension_types[k]
            /\ IF G # <<>>
               THEN /\ bc = <<>>
                    /\ Len(gc) = 1 /\ gc[1].ext = G[1].id
                    /\ gc[1].ret \notin {noresult, Raised}
               ELSE /\ gc = <<>>
                    /\ Len(bc) = 1
                    /\ bc[1].ret = <<IF D # <<>> THEN D[Len(D)] ELSE BaseType(k)>>
            /\ Len(mc) = Len(M)
            /\ \A j \in 1..Len(mc) :
                    /\ mc[j].ext = M[j].id
                    /\ mc[j].arg = IF j = 1 THEN BaseResult ELSE mc[j - 1].ret
            /\ lastOp.ret = IF mc = <<>> THEN BaseResult ELSE mc[Len(mc)].ret
            /\ Len(lastOp.log) = Len(gc) + Len(bc) + Len(mc)

\* A mixin that declares f was woven and an extension with a mod-hook for f
\* was loaded: the read called the mixin's implementation, not the base
\* type's, and the hook modified its result.
C27_Witness ==
    /\ lastOp.op = "read"
    /\ lastOp.attr = "f"
    /\ lastOp.src = "computed"
    /\ names = <<"MixinTwo", "ModifyF">>
    /\ entities[lastOp.ent].cls # BaseType("entry")
    /\ CallsOf("base")[1].ret = <<"M2">>
    /\ lastOp.ret = <<"M2", "2">>

----------------------------------------------------------------------------
(* Properties of the loader and of the composition *)

\* The module a configured name resolves to: a class name, "none" for a
\* module that holds no extension class, "missing" for no module.
ResolvedModule(name) ==
    IF subdir # "" /\ UserModule(Normalize(name)) # "missing"
    THEN UserModule(Normalize(name))
    ELSE IF subdir # "" /\ SiteModule(Normalize(name)) # "missing"
    THEN SiteModule(Normalize(name))
    ELSE BuiltinModule(Normalize(name))

\* The mixins for kind k that define method m, in load order.
Providers(k, m) ==
    SelectSeq([i \in 1..idx |-> ExtensionClass(ResolvedModule(names[i])).mixin[k]],
              LAMBDA x : x # "none" /\ m \in StaticClasses[x].defs)

\* The class whose definition of m the claim expects an entity of kind k to use.
ExpectedOwner(k, m) ==
    IF Len(Providers(k, m)) > 0 THEN Providers(k, m)[Len(Providers(k, m))]
    ELSE BaseType(k)

\* C5: mixin precedence.  Every entity constructed after the loads uses,
\* for each ordinary method, the definition of the mixin of its kind that
\* was loaded last among those defining it, and the base type's definition
\* where no mixin of the kind defines it.
C5_MixinPrecedence ==
    \A e \in 1..Len(entities) : \A m \in {"f", "g", "h"} :
        ResolveMethod(classes, entities[e].cls, m) = ExpectedOwner(entities[e].kind, m)

\* The same, for the entities made by the live type of their kind.
C5_LiveTypePrecedence ==
    \A e \in 1..Len(entities) : \A m \in {"f", "g", "h"} :
        entities[e].cls = extension_types[entities[e].kind] =>
            ResolveMethod(classes, entities[e].cls, m) = ExpectedOwner(entities[e].kind, m)

\* An entry made after two extensions wove entry mixins that both define f.
C5_LiveTypeWitness ==
    \E e \in 1..Len(entities) :
        /\ entities[e].kind = "entry"
        /\ Len(Providers("entry", "f")) = 2
        /\ ResolveMethod(classes, entities[e].cls, "f") = "M2"
        /\ ResolveMethod(classes, entities[e].cls, "g") = "M1"
        /\ ResolveMethod(classes, entities[e].cls, "h") = "BlogEntry"

\* C6: loader failure.  While the list holds a name that resolves to no
\* module, or to a module without an extension class, the load never gets
\* past that name and no entity is constructed; when the load has failed at
\* that name the error is a BlogExtensionError that carries the name as it
\* was looked up (hyphens replaced by underscores).
C6_LoaderFailure ==
    \A i \in 1..Len(names) :
        ResolvedModule(names[i]) \in {"missing", "none"} =>
            /\ entities = <<>>
            /\ pc \notin {"loaded", "ready"}
            /\ idx < i
            /\ (pc = "failed" /\ idx = i - 1) =>
                    /\ err.type = "BlogExtensionError"
                    /\ err.name = Normalize(names[i])
                    /\ err.text = (IF ResolvedModule(names[i]) = "missing"
                                   THEN "{0} {1} not found!"
                                   ELSE "no {0} in {1} module!")

\* The load of a list whose first name resolves and whose second resolves
\* to a module without an extension class has failed naming the second.
C6_Witness ==
    /\ pc = "failed"
    /\ Len(names) = 2
    /\ idx = 1
    /\ ResolvedModule(names[2]) = "none"
    /\ err.type = "BlogExtensionError"
    /\ err.name = <<"e", "_", "m">>
    /\ entities = <<>>

\* The instances loaded so far, in load order.
Loaded == [i \in 1..idx |-> [id |-> i, cls |-> ResolvedModule(names[i])]]

\* Whether an instance of cls has an attribute named k_... other than k_mixin.
HasKindAttr(cls, k) ==
    \E item \in ExtensionClass(cls).dir :
        item[1] = k /\ item # <<k, "mixin">>

IsPrefix(s, t) == Len(s) <= Len(t) /\ SubSeq(t, 1, Len(s)) = s

\* C11, as stated: after loading, the list of each kind holds exactly the
\* loaded instances that define a get- or a mod-hook of the kind, in load
\* order.
C11_HookDefiners ==
    pc \in {"loaded", "ready"} =>
        \A k \in Kinds :
            extension_map[k] =
                SelectSeq(Loaded, LAMBDA x :
                    \E item \in ExtensionClass(x.cls).dir :
                        item[1] = k /\ item[2] \in {"get", "mod"})

\* C11, amended: while the load has not failed, the list of each kind holds
\* exactly the instances loaded so far that have at least one attribute
\* whose name starts with the kind's prefix and does not end in "mixin" (a
\* get-, mod- or post_init hook, or any other attribute so named), each
\* once and in load order; every step of the load leaves each list as it
\* was or appends to it.
C11_Registration ==
    [][ /\ \A k \in Kinds : IsPrefix(extension_map[k], extension_map'[k])
        /\ pc' # "failed" =>
              \A k \in Kinds :
                  /\ extension_map'[k] =
                        SelectSeq([i \in 1..idx' |->
                                      [id |-> i, cls |-> ResolvedModule(names[i])]],
                                  LAMBDA x : HasKindAttr(x.cls, k))
                  /\ \A i, j \in 1..Len(extension_map'[k]) :
                        i < j => extension_map'[k][i].id < extension_map'[k][j].id ]_vars

\* Three extensions are loaded: the first is in the page list for its
\* page_post_init hook alone, the second is in the entry list for an
\* attribute that is no hook, and the blog list holds the second and the
\* third in load order.
C11_Witness ==
    /\ pc = "loaded"
    /\ Len(names) = 3
    /\ extension_map["page"] = <<[id |-> 1, cls |-> "MixinTwo"]>>
    /\ extension_map["entry"] = <<[id |-> 2, cls |-> "Copyright"]>>
    /\ extension_map["blog"] = <<[id |-> 2, cls |-> "Copyright"], [id |-> 3, cls |-> "Index"]>>

MixinClasses == {"M1", "M2", "U2", "P1", "P2", "G"}

\* The mixins for kind k of the first n configured names, in load order.
WovenUpTo(n, k) ==
    SelectSeq([i \in 1..n |-> ExtensionClass(ResolvedModule(names[i])).mixin[k]],
              LAMBDA x : x # "none")

\* The mixins and the base type of kind k among the ancestors of class c, in
\* the order of the method resolution.
LiveOrder(tbl, c, k) ==
    SelectSeq(Mro(tbl, c).mro, LAMBDA x : x \in MixinClasses \cup {BaseType(k)})

Range(f) == {f[i] : i \in DOMAIN f}

\* C12: live-type invariant.  When the load starts and after every step
\* that changes the registry or completes the load of an extension, unless
\* the load has failed, the live type of each kind is one class with a consistent method
\* resolution order, in which the mixins woven so far for the kind come
\* first, each once, the later woven ahead of the earlier, and the kind's
\* base type comes behind them all.  A step that replaces the live type puts
\* the new mixin, which was no ancestor before, right behind the new class
\* and keeps every ancestor of the previous live type in its previous order,
\* in the insert-alongside branch and in the wrap branch alike.
C12_LiveType ==
    [][ (pc = "start" \/ <<extension_types, classes, idx>>' # <<extension_types, classes, idx>>) =>
        \A k \in Kinds :
          LET old == Mro(classes, extension_types[k]).mro
              newr == Mro(classes', extension_types'[k])
              new == newr.mro
          IN  /\ extension_types'[k] \in DOMAIN classes'
              /\ newr.ok
              /\ Cardinality({i \in 1..Len(new) : new[i] = BaseType(k)}) = 1
              /\ pc' # "failed" =>
                    SelectSeq(new, LAMBDA x : x \in MixinClasses \cup {BaseType(k)}) =
                        reversed(WovenUpTo(idx', k)) \o <<BaseType(k)>>
              /\ extension_types'[k] # extension_types[k] =>
                    /\ new[1] = extension_types'[k]
                    /\ new[2] = ExtensionClass(pending).mixin[k]
                    /\ new[2] \notin Range(old)
                    /\ SelectSeq(new, LAMBDA x : x \in Range(Tail(old))) = Tail(old) ]_vars

\* Three page mixins were woven: the first two by the wrap branch (the first
\* subclasses object, so the live type was no PageMixin yet), the third by
\* the insert-alongside branch.
C12_Witness ==
    /\ pc = "loaded"
    /\ LiveOrder(classes, extension_types["page"], "page") = <<"P2", "P1", "G", "BlogPage">>
    /\ Len(classes[extension_types["page"]].bases) = 3
    /\ \E c \in Range(Mro(classes, extension_types["page"]).mro) :
            classes[c].bases = <<"G", "BlogPage">>
    /\ LiveOrder(classes, extension_types["entry"], "entry") = <<"M2", "M1", "BlogEntry">>

\* Whether the load of the i-th configured name fails: no module, no
\* extension class in the module, a post_init that raises, or a mixin that
\* an earlier name has woven already (type() raises TypeError).
StepFails(i) ==
    LET cls == ResolvedModule(names[i])
    IN  \/ cls \in {"missing", "none"}
        \/ ExtensionClass(cls).raises
        \/ \E j \in 1..(i - 1), k \in Kinds :
                /\ ExtensionClass(cls).mixin[k] # "none"
                /\ ResolvedModule(names[j]) \notin {"missing", "none"}
                /\ ExtensionClass(ResolvedModule(names[j])).mixin[k] =
                        ExtensionClass(cls).mixin[k]

\* C13, as stated: whatever step of the load fails, the load ends with a
\* BlogExtensionError and no Blog is constructed.
C13_FatalExtensionError ==
    pc = "failed" => (err.type = "BlogExtensionError" /\ entities = <<>>)

\* C13, amended: all-or-nothing load.  If the load of any configured name
\* fails, load_blog never gets to construct the Blog; a load that has ended
\* in an exception has constructed nothing, and the exception is a
\* BlogExtensionError where the name did not resolve to a module with an
\* extension class and the exception the constructor raised, as it was
\* raised, where the instantiation or the registration failed; a Blog is
\* constructed only when every configured name has been loaded.
C13_AllOrNothing ==
    /\ (\E i \in 1..Len(names) : StepFails(i)) =>
            (pc \notin {"loaded", "ready"} /\ entities = <<>>)
    /\ pc = "failed" =>
            /\ entities = <<>>
            /\ idx < Len(names)
            /\ StepFails(idx + 1)
            /\ err.type = (IF ResolvedModule(names[idx + 1]) \in {"missing", "none"}
                           THEN "BlogExtensionError"
                           ELSE IF ExtensionClass(ResolvedModule(names[idx + 1])).raises
                           THEN "Exception" ELSE "TypeError")
    /\ entities # <<>> =>
            /\ pc = "ready"
            /\ idx = Len(names)
            /\ \A i \in 1..Len(names) : ~StepFails(i)
            /\ entities[1].kind = "blog"

\* The second of two names resolved to an extension whose constructor
\* raised: the load ended with that exception, the first extension stays
\* registered and nothing was constructed.
C13_Witness ==
    /\ pc = "failed"
    /\ idx = 1
    /\ err.type = "Exception"
    /\ ResolvedModule(names[2]) = "Boom"
    /\ Len(extension_map["blog"]) = 1
    /\ entities = <<>>

\* C20: registry frozen before construction.  In the load_blog flow no step
\* taken once an entity exists changes the extension lists, the live types
\* or the classes, and no step that constructs an entity changes them: every
\* mutation of the registry happens before the first Blog, Entry or Page is
\* constructed.
C20_RegistryFrozen ==
    [][ /\ entities # <<>> => UNCHANGED <<extension_map, extension_types, classes>>
        /\ entities' # entities =>
              UNCHANGED <<extension_map, extension_types, classes>> ]_vars

\* A blog and an entry were constructed after a load that appended to the
\* page list and replaced the live types of entry and page.
C20_Witness ==
    /\ pc = "ready"
    /\ Len(entities) >= 2
    /\ entities[1].kind = "blog"
    /\ entities[2].kind = "entry"
    /\ entities[2].cls = extension_types["entry"]
    /\ extension_types["entry"] # "BlogEntry"
    /\ extension_types["page"] # "BlogPage"
    /\ Len(extension_map["page"]) > 0

\* C21 as stated: a name resolves to the module of the user's directory
\* where one is configured and holds the name, and else to the module of
\* the built-in namespace.
C21_UserThenBuiltin ==
    LET claimed(n) == IF subdir # "" /\ UserModule(n) # "missing"
                      THEN UserModule(n) ELSE BuiltinModule(n)
    IN  /\ pc = "instantiate" => pending = claimed(Normalize(names[idx + 1]))
        /\ (pc = "failed" /\ err.type = "BlogExtensionError") =>
                claimed(Normalize(names[idx + 1])) \in {"missing", "none"}

\* C21, amended: extension resolution order.  Hyphens are replaced by
\* underscores before the lookup.  With a user directory configured the
\* name is imported as a top-level module with that directory in front of
\* the module search path: the module of the user's directory is taken
\* even if a built-in extension has the name, and where the directory has
\* none, a module of that name further down the search path is taken
\* before the built-in namespace is tried.  Without a user directory only
\* the built-in namespace is searched.
C21_ResolutionOrder ==
    LET n == Normalize(names[idx + 1])
        found == IF subdir = "" THEN BuiltinModule(n)
                 ELSE IF UserModule(n) # "missing" THEN UserModule(n)
                 ELSE IF SiteModule(n) # "missing" THEN SiteModule(n)
                 ELSE BuiltinModule(n)
    IN  /\ pc = "instantiate" =>
                /\ pending = found
                /\ names[idx + 1] = <<"m", "-", "1">> => pending = "MixinOne"
        /\ (pc = "failed" /\ err.type = "BlogExtensionError") =>
                /\ found \in {"missing", "none"}
                /\ \A i \in 1..Len(err.name) : err.name[i] # "-"

\* With a user directory configured, a name with a hyphen has resolved to
\* the built-in module and the next name, which both the directory and the
\* built-in namespace hold, to the class of the user's module.
C21_Witness ==
    /\ subdir = "ext"
    /\ pc = "instantiate"
    /\ idx = 1
    /\ names[1] = <<"m", "-", "1">>
    /\ extension_types["entry"] # BaseType("entry")
    /\ names[2] = <<"m", "2">>
    /\ BuiltinModule(names[2]) = "MixinTwo"
    /\ pending = "UserTwo"

\* C25: the user's directory is on the module search path only during the
\* load.  Once the load has ended, with all names loaded or with an
\* exception at a name or at an instantiation, the path is what it was
\* before the load started.
C25_PathRestored ==
    pc \in {"loaded", "failed", "ready", "aborted"} => sys_path = <<"site">>

\* C26: the load is incremental and is not rolled back.  The names are
\* taken one at a time: while name idx + 1 is resolved or instantiated the
\* registry holds instances of the names before it only.  When the load has
\* failed at a name, the extensions loaded before it are in the lists of
\* their kinds, in load order, their mixins are woven into the live types,
\* and no instance of a later name exists.
C26_Incremental ==
    /\ \A k \in Kinds : \A i \in 1..Len(extension_map[k]) :
            extension_map[k][i].id <= (IF pc = "failed" THEN idx + 1 ELSE idx)
    /\ pc = "instantiate" => (idx < Len(names) /\ pending = ResolvedModule(names[idx + 1]))
    /\ pc = "failed" =>
            \A k \in Kinds :
                /\ SelectSeq(extension_map[k], LAMBDA x : x.id <= idx) =
                        SelectSeq(Loaded, LAMBDA x : HasKindAttr(x.cls, k))
                /\ SelectSeq(LiveOrder(classes, extension_types[k], k),
                             LAMBDA x : x \in Range(WovenUpTo(idx, k)) \cup {BaseType(k)}) =
                        reversed(WovenUpTo(idx, k)) \o <<BaseType(k)>>

\* The load of three names has failed at the third, whose mixin was woven
\* before: the first extension is in the page list and its mixins are in
\* the live types, the second is in the blog list.
C26_Witness ==
    /\ pc = "failed"
    /\ idx = 2
    /\ err.type = "TypeError"
    /\ ResolvedModule(names[1]) = "MixinTwo"
    /\ ResolvedModule(names[2]) = "Index"
    /\ extension_map["page"] = <<[id |-> 1, cls |-> "MixinTwo"]>>
    /\ extension_map["blog"] = <<[id |-> 2, cls |-> "Index"]>>
    /\ extension_types["entry"] # BaseType("entry")
    /\ extension_types["page"] # BaseType("page")

----------------------------------------------------------------------------
(* Properties of the attribute cache *)

LastKey == entities[lastOp.ent].cachekey

\* The map fcache looks the key up in: the one the cache object holds, or
\* the one it loads from the file on first use.
LoadedMap ==
    IF cacheobj.loaded THEN [ok |-> TRUE, map |-> cacheobj.cache, exc |-> "none"]
    ELSE LoadCache(cachecfg, cachefile)

\* C3, as stated: on a miss the result of the compute function is what is
\* stored under the key and what is returned.
C3_ResultStored ==
    (lastOp.op = "read" /\ lastOp.src = "computed") =>
        /\ lastOp.ret = lastOp.raw
        /\ cacheobj.cache[LastKey] = lastOp.raw

\* C3, amended: a call of the cached wrapper whose key is in the loaded map
\* returns the stored value, computes nothing and writes nothing; a call
\* whose key is not in it calls the wrapped function once, converts the
\* result to the cache's value type where one is declared, stores the
\* converted value under the key, writes the whole map to the file and
\* returns the converted value.  A stored value is never replaced, so a
\* later call with the same key computes nothing and returns it.
C3_GetOrCompute ==
    [][ /\ (cacheobj.loaded /\ cacheobj'.loaded) =>
              \A k \in DOMAIN cacheobj.cache :
                  k \in DOMAIN cacheobj'.cache /\ cacheobj'.cache[k] = cacheobj.cache[k]
        /\ (lastOp'.op = "read" /\ nops' = nops + 1 /\ lastOp'.src # "memo"
                /\ lastOp'.exc = "none") =>
              LET key == entities[lastOp'.ent].cachekey
                  pre == LoadedMap.map
              IN  IF key \in DOMAIN pre
                  THEN /\ lastOp'.src = "cache"
                       /\ lastOp'.ret = pre[key]
                       /\ lastOp'.log = <<>>
                       /\ lastOp'.raw = Unset
                       /\ cacheobj'.cache = pre
                       /\ cachefile' = cachefile
                  ELSE /\ lastOp'.src = "computed"
                       /\ lastOp'.raw # Unset
                       /\ lastOp'.ret = Convert(cachecfg.objtype, lastOp'.raw)
                       /\ cacheobj'.cache = Store(pre, key, lastOp'.ret)
                       /\ cachefile' = [exists |-> TRUE,
                                        lines |-> save(cachecfg, cacheobj'.cache)] ]_vars

\* A miss in a typed cache that already held another key: the value stored
\* and returned is the converted result, and the file holds both lines.
C3_Witness ==
    /\ lastOp.op = "read"
    /\ lastOp.src = "computed"
    /\ cachecfg.objtype = "Timestamp"
    /\ lastOp.ret # lastOp.raw
    /\ cacheobj.cache[LastKey] = lastOp.ret
    /\ Len(cachefile.lines) = 2

\* Whether the text of v holds the separator
HasSep(v) == \E i \in 1..Len(unicode(v)) : unicode(v)[i] = sep

\* C7: cache round-trip.  Whenever the cache object holds a map whose keys
\* and values do not contain the separator and the file has been written,
\* loading the file into a fresh cache object gives the same map.
C7_RoundTrip ==
    (/\ cacheobj.loaded
     /\ cachefile.exists
     /\ \A k \in DOMAIN cacheobj.cache : ~HasSep(k) /\ ~HasSep(cacheobj.cache[k])) =>
        /\ LoadCache(cachecfg, cachefile).ok
        /\ LoadCache(cachecfg, cachefile).map = cacheobj.cache

\* C8, as stated: every first access on an entity consults the get-hooks
\* and applies all the mod-hooks, on a fresh compute and on a cache hit.
C8_EveryAccessDispatches ==
    (lastOp.op = "read" /\ lastOp.src \in {"cache", "computed"}) =>
        /\ Len(CallsOf("mod")) = Len(Defining("entry", <<"entry", "mod", lastOp.attr>>))
        /\ Len(Defining("entry", <<"entry", "get", lastOp.attr>>)) > 0 =>
                Len(CallsOf("get")) > 0

\* C8, amended: the cache wraps the whole dispatch.  On a miss the
\* get-hooks, the base implementation and the mod-hooks run inside the
\* cached wrapper and the value after the mod-hooks, converted to the
\* cache's value type, is what is stored; on a hit no hook and no base
\* implementation runs and the stored value is returned as it is.
C8_CacheWrapsDispatch ==
    lastOp.op = "read" =>
        /\ lastOp.src = "cache" =>
                /\ lastOp.log = <<>>
                /\ lastOp.ret = cacheobj.cache[LastKey]
        /\ lastOp.src = "computed" =>
                /\ Len(CallsOf("mod")) =
                        Len(Defining("entry", <<"entry", "mod", lastOp.attr>>))
                /\ Len(Defining("entry", <<"entry", "get", lastOp.attr>>)) > 0 =>
                        Len(CallsOf("get")) > 0
                /\ lastOp.raw = (IF Len(CallsOf("mod")) > 0
                                 THEN CallsOf("mod")[Len(CallsOf("mod"))].ret
                                 ELSE BaseResult)
                /\ cacheobj.cache[LastKey] = Convert(cachecfg.objtype, lastOp.raw)

\* A cache hit on an attribute that has a mod-hook: no hook was called and
\* the value returned is the one stored after the mod-hook of the run that
\* computed it.
C8_Witness ==
    /\ lastOp.op = "read"
    /\ lastOp.src = "cache"
    /\ lastOp.log = <<>>
    /\ Len(Defining("entry", <<"entry", "mod", lastOp.attr>>)) = 1
    /\ lastOp.ret = <<"x", "1">>

\* The record a line of the file holds: the line without its newline,
\* split at the separator the way the cache declares.
RecordOf(cfg, line) ==
    LET text == SubSeq(line, 1, Len(line) - 1)
        t == IF cfg.reverse THEN reversed(rsplit(text, sep)) ELSE split(text, sep)
    IN  [key |-> t[1], value |-> IF Len(t) = 2 THEN t[2] ELSE <<>>]

\* C14: the cache file is a full snapshot.  After every read that computed
\* and stored a value, the map in memory holds the keys it held before
\* (those loaded from the file at first access among them) with their
\* values and the new key, and the file holds one line for each key of the
\* map and no other line, the line of a key holding the text of its value.
C14_FullSnapshot ==
    [][ (lastOp'.op = "read" /\ nops' = nops + 1 /\ lastOp'.src = "computed") =>
          LET pre == LoadedMap.map
              post == cacheobj'.cache
              lines == cachefile'.lines
          IN  /\ cachefile'.exists
              /\ DOMAIN post = DOMAIN pre \cup {entities[lastOp'.ent].cachekey}
              /\ \A k \in DOMAIN pre : post[k] = pre[k]
              /\ Len(lines) = Cardinality(DOMAIN post)
              /\ \A i \in 1..Len(lines) : RecordOf(cachecfg, lines[i]).key \in DOMAIN post
              /\ \A k \in DOMAIN post :
                    \E i \in 1..Len(lines) :
                        /\ RecordOf(cachecfg, lines[i]) =
                                [key |-> k, value |-> unicode(post[k])]
                        /\ \A j \in 1..Len(lines) :
                                RecordOf(cachecfg, lines[j]).key = k => j = i ]_vars

\* The first read of a run computed the value of key a; the file held a
\* record for key b, which the run has not asked for: the map and the file
\* hold both.
C14_Witness ==
    /\ nops = 1
    /\ lastOp.src = "computed"
    /\ LastKey = <<"a">>
    /\ DOMAIN cacheobj.cache = {<<"a">>, <<"b">>}
    /\ Len(cachefile.lines) = 2
    /\ \A e \in 1..Len(entities) :
            entities[e].cachekey = <<"b">> => entities[e].dict[cachecfg.attr] = Unset

\* C15, as stated: after every save the records of the file are in the
\* order of their keys, in an ordinary and in a reversed cache.
C15_SortedByKey ==
    (lastOp.op = "read" /\ lastOp.src = "computed") =>
        \A i, j \in 1..Len(cachefile.lines) :
            i < j => LessStr(RecordOf(cachecfg, cachefile.lines[i]).key,
                             RecordOf(cachecfg, cachefile.lines[j]).key)

\* C15, amended: after every save the lines of the file are in ascending
\* order as texts, no line twice: in an ordinary cache that is the order of
\* the keys, in a reversed cache the order of the texts of the values and,
\* among equal values, of the keys.  The file is the sorted list of the
\* lines of the map, whatever the order the keys were stored in.
C15_SortedLines ==
    (lastOp.op = "read" /\ lastOp.src = "computed") =>
        LET lines == cachefile.lines
            rec(i) == RecordOf(cachecfg, lines[i])
        IN  /\ \A i, j \in 1..Len(lines) : i < j => LessStr(lines[i], lines[j])
            /\ ~cachecfg.reverse =>
                    \A i, j \in 1..Len(lines) : i < j => LessStr(rec(i).key, rec(j).key)
            /\ cachecfg.reverse =>
                    \A i, j \in 1..Len(lines) : i < j =>
                        \/ LessStr(rec(i).value, rec(j).value)
                        \/ rec(i).value = rec(j).value /\ LessStr(rec(i).key, rec(j).key)
            /\ {lines[i] : i \in 1..Len(lines)} =
                    {FormatLine(cachecfg, k, cacheobj.cache[k]) : k \in DOMAIN cacheobj.cache}

\* A reversed cache was saved with two records: the file is in the order
\* of the values, which is against the order of the keys.
C15_Witness ==
    /\ lastOp.op = "read"
    /\ lastOp.src = "computed"
    /\ cachecfg.reverse
    /\ Len(cachefile.lines) = 2
    /\ RecordOf(cachecfg, cachefile.lines[1]).key = <<"b">>
    /\ RecordOf(cachecfg, cachefile.lines[2]).key = <<"a">>
    /\ LessStr(RecordOf(cachecfg, cachefile.lines[1]).value,
               RecordOf(cachecfg, cachefile.lines[2]).value)

\* Whether a line of the file cannot be loaded: its text does not split
\* into two at the separator, or the cache's value type rejects the value.
BadRecord(cfg, line) ==
    LET t == IF cfg.reverse THEN reversed(rsplit(strip(line), sep))
             ELSE split(strip(line), sep)
    IN  Len(t) # 2 \/ (cfg.objtype = "Timestamp" /\ Timestamp(t[2]) = Raised)

\* A read that ended in an exception before anything was computed: the
\* load of the cache file raised.
LoadFailed == lastOp.op = "read" /\ lastOp.src = "raised" /\ lastOp.log = <<>>

\* C16, as stated: a load that fails raises a BlogConfigError.
C16_ConfigError == LoadFailed => lastOp.exc = "BlogConfigError"

\* C16, amended: cache loading.  A first access that finds no file goes on
\* with an empty map and raises nothing.  One that finds a file with a line
\* that does not split into key and value, or (typed cache) whose value the
\* value type rejects, ends in the exception that line raised (ValueError,
\* IndexError or TypeError, not BlogConfigError); no map is kept, nothing is
\* computed, stored or written.  One that finds a file of loadable lines
\* holds the key of every line afterwards.
C16_CacheLoading ==
    [][ (lastOp'.op = "read" /\ nops' = nops + 1 /\ lastOp'.src # "memo"
            /\ ~cacheobj.loaded) =>
          LET lines == cachefile.lines
          IN  IF ~cachefile.exists
              THEN /\ cacheobj'.loaded
                   /\ DOMAIN cacheobj'.cache \subseteq {entities[lastOp'.ent].cachekey}
                   /\ lastOp'.log # <<>>
              ELSE IF \E i \in 1..Len(lines) : BadRecord(cachecfg, lines[i])
              THEN /\ lastOp'.src = "raised"
                   /\ lastOp'.log = <<>>
                   /\ lastOp'.exc \in {"ValueError", "IndexError", "TypeError"}
                   /\ ~cacheobj'.loaded
                   /\ cachefile' = cachefile
                   /\ entities' = entities
              ELSE /\ cacheobj'.loaded
                   /\ \A i \in 1..Len(lines) :
                        RecordOf(cachecfg, lines[i]).key \in DOMAIN cacheobj'.cache ]_vars

\* A read of a typed cache found a file whose second line holds a value
\* that is no timestamp: it ended in a ValueError, no map is held and the
\* file is as it was.
C16_Witness ==
    /\ LoadFailed
    /\ cachecfg.objtype = "Timestamp"
    /\ lastOp.exc = "ValueError"
    /\ ~cacheobj.loaded
    /\ Len(cachefile.lines) = 2
    /\ ~BadRecord(cachecfg, cachefile.lines[1])
    /\ BadRecord(cachecfg, cachefile.lines[2])

\* C17: compute failure leaves the cache unchanged.  A read in which a call
\* of the compute function raised ends in the exception and returns
\* nothing; the key was not in the map and is not in it afterwards, the map
\* is the loaded one, the file is not written and the entity holds no value;
\* the next read for the same key calls the compute function again.
C17_ComputeFailure ==
    [][ /\ (lastOp'.op = "read" /\ nops' = nops + 1
                /\ \E i \in 1..Len(lastOp'.log) : lastOp'.log[i].ret = Raised) =>
              LET key == entities[lastOp'.ent].cachekey
              IN  /\ lastOp'.src = "raised"
                  /\ lastOp'.exc # "none"
                  /\ lastOp'.ret = Unset
                  /\ LoadedMap.ok
                  /\ key \notin DOMAIN LoadedMap.map
                  /\ cacheobj'.cache = LoadedMap.map
                  /\ cachefile' = cachefile
                  /\ entities' = entities
        /\ (/\ lastOp.op = "read" /\ lastOp.src = "raised" /\ lastOp.log # <<>>
            /\ lastOp'.op = "read" /\ nops' = nops + 1
            /\ entities[lastOp'.ent].cachekey = entities[lastOp.ent].cachekey) =>
              \E i \in 1..Len(lastOp'.log) : lastOp'.log[i].key[2] \in {"get", "base"} ]_vars

\* The compute function raised for key a in a run that had loaded key b
\* from the file: the map holds b alone, the file its one line, the entity
\* nothing.
C17_Witness ==
    /\ lastOp.op = "read"
    /\ lastOp.src = "raised"
    /\ lastOp.log # <<>>
    /\ lastOp.log[Len(lastOp.log)].ret = Raised
    /\ LastKey = <<"a">>
    /\ cacheobj.loaded
    /\ DOMAIN cacheobj.cache = {<<"b">>}
    /\ Len(cachefile.lines) = 1
    /\ entities[lastOp.ent].dict[cachecfg.attr] = Unset

\* C22: single cache object.  At most one cache object is made for the
\* cache file name in a process, every access that goes through the cache
\* uses it, and what one entity has written is what any entity reads later
\* under the same key; nothing is lost from the object's map.
C22_SingleCacheObject ==
    [][ /\ cacheobj'.made <= 1
        /\ (lastOp'.op = "read" /\ nops' = nops + 1 /\ lastOp'.src # "memo") =>
              LET key == entities[lastOp'.ent].cachekey
              IN  /\ cacheobj'.made = 1
                  /\ cacheobj.loaded =>
                        /\ cacheobj.made = 1
                        /\ \A k \in DOMAIN cacheobj.cache :
                              /\ k \in DOMAIN cacheobj'.cache
                              /\ cacheobj'.cache[k] = cacheobj.cache[k]
                        /\ key \in DOMAIN cacheobj.cache =>
                              /\ lastOp'.src = "cache"
                              /\ lastOp'.ret = cacheobj.cache[key] ]_vars

\* With no cache file at the start, the first entry computed its value and
\* a third entry with the same cache key has read that value from the one
\* cache object.
C22_Witness ==
    /\ Len(entities) = 3
    /\ entities[3].cachekey = entities[1].cachekey
    /\ IsCached(entities[1], cachecfg.attr)
    /\ lastOp.op = "read"
    /\ lastOp.ent = 3
    /\ lastOp.src = "cache"
    /\ lastOp.ret = entities[1].dict[cachecfg.attr]
    /\ cacheobj.made = 1
    /\ Len(cachefile.lines) = 1

\* The text of a timestamp with its fields joined by `join`: hour and
\* minute, two digits each (the date fields are carried like the hour).
StampText(ts, join) == <<"0", ts[2], join, "0", ts[3]>>

\* The first request of a run of the timestamps extension whose cache file
\* is absent, and a request of a fresh run that finds the key in the file.
FirstRequest ==
    /\ cachecfg.objtype = "Timestamp"
    /\ ~cachefile.exists
    /\ lastOp'.op = "read" /\ nops' = nops + 1
    /\ lastOp'.src = "computed"

SecondRun ==
    /\ cachecfg.objtype = "Timestamp"
    /\ ~cacheobj.loaded
    /\ LoadCache(cachecfg, cachefile).ok
    /\ lastOp'.op = "read" /\ nops' = nops + 1
    /\ entities[lastOp'.ent].cachekey \in DOMAIN LoadCache(cachecfg, cachefile).map

\* C23 as stated: the first request writes the one line `key hh:mm`, key
\* first; a second run returns the cached value without reading the mtime.
C23_KeyFirstLine ==
    [][ /\ FirstRequest =>
              /\ lastOp'.raw[1] = "#float"
              /\ cachefile'.lines =
                    << entities[lastOp'.ent].cachekey \o <<sep>>
                       \o StampText(lastOp'.ret, ":") \o <<"\n">> >>
        /\ SecondRun =>
              /\ lastOp'.src = "cache"
              /\ lastOp'.log = <<>> ]_vars

\* C23, amended: timestamp cache scenario.  With the cache file absent the
\* first request for an entry's timestamp computes it from the file mtime
\* and writes exactly one line, the timestamp first and the key last
\* (reverse=True), the fields of the timestamp joined by hyphens up to the
\* minute; a second run with that file present returns the timestamp made
\* of the line, its second being 0, without reading the file's mtime.
C23_TimestampScenario ==
    [][ /\ FirstRequest =>
              /\ lastOp'.raw[1] = "#float"
              /\ lastOp'.log[Len(lastOp'.log)].key = <<"entry", "base", "timestamp">>
              /\ lastOp'.ret = <<"#ts", lastOp'.raw[2], lastOp'.raw[3], lastOp'.raw[4]>>
              /\ cachefile'.exists
              /\ cachefile'.lines =
                    << StampText(lastOp'.ret, "-") \o <<sep>>
                       \o entities[lastOp'.ent].cachekey \o <<"\n">> >>
        /\ SecondRun =>
              /\ lastOp'.src = "cache"
              /\ lastOp'.log = <<>>
              /\ \E i \in 1..Len(cachefile.lines) :
                    /\ RecordOf(cachecfg, cachefile.lines[i]).key =
                            entities[lastOp'.ent].cachekey
                    /\ StampText(lastOp'.ret, "-") =
                            RecordOf(cachecfg, cachefile.lines[i]).value
                    /\ lastOp'.ret[4] = "0"
              /\ UNCHANGED cachefile ]_vars

\* The first run found no file, computed the timestamp of entry a from an
\* mtime with a non-zero second and wrote the line; the second run has
\* answered from the file, the second of its timestamp being 0.
C23_Witness ==
    /\ cachecfg.objtype = "Timestamp"
    /\ cachefile.lines = << <<"0", "9", "-", "0", "5", " ", "a", "\n">> >>
    /\ lastOp.op = "read"
    /\ lastOp.src = "cache"
    /\ lastOp.log = <<>>
    /\ entities[lastOp.ent].cachekey = <<"a">>
    /\ lastOp.ret = <<"#ts", "9", "5", "0">>
    /\ Len(entities) = 2
    /\ nops = 3

----------------------------------------------------------------------------
(* Properties of the construction of the blog *)

\* The keys the loaded extensions add to the metadata attribute `name` of
\* the blog through their mod-hooks.
HookKeys(name) ==
    {TagOf[extension_map["blog"][i].id] : i \in
        {j \in 1..Len(extension_map["blog"]) :
            <<"blog", "mod", name>> \in ExtensionClass(extension_map["blog"][j].cls).dir}}

\* C24: required metadata.  The construction of a Blog whose blog file
\* lacks a key of required_metadata, as the mod-hooks extend it, ends with a
\* BlogMetadataError that names a missing key, with no default applied, no
\* default_metadata or blog_post_init hook called and no blog made; a Blog
\* that is constructed holds every required key, every key of the blog
\* file with the value of the file, and the default for the other default
\* keys only.
C24_RequiredMetadata ==
    [][ (pc = "loaded" /\ pc' # pc) =>
          \E loaded \in BlogFiles :
            IF HookKeys("required_metadata") \subseteq DOMAIN loaded
            THEN /\ pc' = "ready"
                 /\ Len(entities') = 1
                 /\ DOMAIN metadata' =
                        DOMAIN loaded \cup {"c"} \cup HookKeys("default_metadata")
                 /\ \A k \in DOMAIN metadata' :
                        metadata'[k] = IF k \in DOMAIN loaded THEN loaded[k] ELSE <<"d">>
            ELSE /\ pc' = "aborted"
                 /\ err'.type = "BlogMetadataError"
                 /\ err'.name[1] \in HookKeys("required_metadata") \ DOMAIN loaded
                 /\ metadata' = loaded
                 /\ entities' = <<>>
                 /\ lastOp'.exc = "BlogMetadataError"
                 /\ \A i \in 1..Len(lastOp'.log) :
                        lastOp'.log[i].key[3] = "required_metadata" ]_vars

\* Two extensions are loaded that each require a key and the second has a
\* blog_post_init hook; the blog file holds the key of the first only: the
\* construction has ended naming the key of the second, after the
\* property's own function and the two required_metadata hooks and no
\* other call.
C24_Witness ==
    /\ pc = "aborted"
    /\ names = <<"Feed", "Quote">>
    /\ DOMAIN metadata = {"1"}
    /\ err.name = <<"2">>
    /\ Len(lastOp.log) = 3
    /\ entities = <<>>

----------------------------------------------------------------------------
(* Properties of the sources *)

\* The entry lists of new[i..j], one after the other.
RECURSIVE Concatenated(_, _, _)
Concatenated(new, i, j) ==
    IF i > j THEN <<>> ELSE entries(new[i].source) \o Concatenated(new, i + 1, j)

\* ceil(n / m)
Ceil(n, m) ==
    IF m > 0 THEN (n + m - 1) \div m
    ELSE IF m < 0 THEN 0 - (n \div (0 - m))
    ELSE 0

\* new is old with every source that is paginated replaced, in place, by its
\* pages and every other source kept.
RECURSIVE Partitioned(_, _)
Partitioned(old, new) ==
    IF old = <<>> THEN new = <<>>
    ELSE LET s == Head(old)
             pm == config.page_max_entries
         IN  IF /\ s.format \in config.paginate_formats
                /\ s.source.cls # "BlogEntry"
                /\ Len(entries(s.source)) > pm
             THEN LET n == Ceil(Len(entries(s.source)), pm)
                  IN  /\ pm # 0
                      /\ n >= 0
                      /\ Len(new) >= n
                      /\ \A p \in 1..n :
                            /\ new[p].format = s.format
                            /\ new[p].source.cls = "PageEntries"
                            /\ new[p].source.orig_source = s.source
                            /\ new[p].source.pagenum = p - 1
                            /\ entries(new[p].source) # <<>>
                            /\ Len(entries(new[p].source)) <= pm
                      /\ Concatenated(new, 1, n) = entries(s.source)
                      /\ Partitioned(Tail(old), SubSeq(new, n + 1, Len(new)))
             ELSE /\ new # <<>>
                  /\ Head(new) = s
                  /\ Partitioned(Tail(old), Tail(new))

\* C28: when blog.sources is read with the pagination extension loaded, every
\* container source of a paginated format with more than page_max_entries
\* entries is replaced, in place, by ceil(n / page_max_entries) PageEntries
\* in page order, every one non-empty and of at most page_max_entries
\* entries, whose entry lists concatenated are the entry list of the source;
\* every other source is passed through unchanged.
C28_Partition ==
    [][pc = "sources" =>
          /\ pc' = "paginated"
          /\ Partitioned(BlogSources([f \in {"html", "atom"} |-> BlogIndex]), sources')]_vars

\* The value of the href attribute of a link make_pagelinks built.
Href(link) == SubSeq(link, 2, Len(link) - 3)

\* The positions in sources of the pages of the source and format the page
\* at position i belongs to.
PagesLike(i) ==
    {j \in 1..Len(sources) :
        /\ sources[j].source.cls = "PageEntries"
        /\ sources[j].source.orig_source = sources[i].source.orig_source
        /\ sources[j].format = sources[i].format}

\* The urlpath of the page BlogPage makes of page number q of that source.
UrlpathOfPage(i, q) ==
    LET j == CHOOSE k \in PagesLike(i) : sources[k].source.pagenum = q
    IN  PageUrlpath(sources[j].source, sources[j].format)

\* C29 as stated: the newer link of page p is non-empty iff p > 0, the older
\* link iff p < N - 1; the newer link addresses page p - 1 and the older link
\* page p + 1, each by the urlpath of that page; the urlpaths of the N pages
\* of one source are pairwise distinct.
C29_LinksAddressPages ==
    lastOp.op = "make_pagelinks" =>
        LET i == lastOp.ent
            p == sources[i].source.pagenum
            N == Cardinality(PagesLike(i))
            newer == lastOp.ret[1]
            older == lastOp.ret[2]
        IN  /\ (newer # <<>>) <=> (p > 0)
            /\ (older # <<>>) <=> (p < N - 1)
            /\ p > 0 => Href(newer) = UrlpathOfPage(i, p - 1)
            /\ p < N - 1 => Href(older) = UrlpathOfPage(i, p + 1)
            /\ \A j, k \in PagesLike(i) :
                  j # k => urlpath(sources[j].source) # urlpath(sources[k].source)

\* C29, amended: as above, but the newer link of page 1 addresses page 0 by
\* the short URL of the paginated source, without "index" and without the
\* format, and not by the urlpath of the page.
C29_Pagelinks ==
    lastOp.op = "make_pagelinks" =>
        LET i == lastOp.ent
            p == sources[i].source.pagenum
            N == Cardinality(PagesLike(i))
            newer == lastOp.ret[1]
            older == lastOp.ret[2]
        IN  /\ (newer # <<>>) <=> (p > 0)
            /\ (older # <<>>) <=> (p < N - 1)
            /\ p > 1 => Href(newer) = UrlpathOfPage(i, p - 1)
            /\ p = 1 => /\ Href(newer) = sources[i].source.orig_source.urlshort
                        /\ Href(newer) # UrlpathOfPage(i, 0)
            /\ p < N - 1 => Href(older) = UrlpathOfPage(i, p + 1)
            /\ \A j, k \in PagesLike(i) :
                  j # k => urlpath(sources[j].source) # urlpath(sources[k].source)

\* The links of page 1 of a source of three pages were made: both are
\* non-empty, the newer one is the short URL of the source and the older
\* one the urlpath of page 2.
C29_Witness ==
    /\ lastOp.op = "make_pagelinks"
    /\ sources[lastOp.ent].source.pagenum = 1
    /\ Cardinality(PagesLike(lastOp.ent)) = 3
    /\ sources[lastOp.ent].format = "html"
    /\ Href(lastOp.ret[1]) = <<"/">>
    /\ Href(lastOp.ret[2]) = <<"/", "i", "n", "d", "e", "x", "2", ".", "html">>

\* The periods of the blog: what the fields of the archive setting are in
\* the timestamps of the entries.
Periods == {SubSeq(all_entries[i].timestamp, 1, FeedFields) : i \in 1..Len(all_entries)}

\* a is an earlier period than b
Earlier(a, b) ==
    \E i \in 1..Len(a) : a[i] < b[i] /\ \A j \in 1..(i - 1) : a[j] = b[j]

\* The positions in sources of the feed sources
FeedSources ==
    {j \in 1..Len(sources) :
        sources[j].source.cls \in {"BlogCurrentFeedEntries", "BlogArchiveFeedEntries"}}

\* C30: with archive feeds enabled and at least one entry, reading
\* blog.sources never fails the assertion of the feed entries' constructor:
\* every feed source was made without an exception, it is the current feed
\* iff its period is the last of the periods and an archive feed only when
\* its period is earlier than the last, its argindex is the rank of its
\* period, and with atom among the index formats every period has exactly
\* one feed source.
C30_FeedAssertion ==
    (config.archive_feeds # "None" /\ all_entries # <<>> /\ pc # "sources") =>
        /\ pc = "fed"
        /\ \A j \in FeedSources :
              LET s == sources[j].source
              IN  /\ s.exc = "none"
                  /\ s.args \in Periods
                  /\ s.argindex = Cardinality({q \in Periods : Earlier(q, s.args)})
                  /\ (s.cls = "BlogCurrentFeedEntries")
                        <=> (\A q \in Periods : ~Earlier(s.args, q))
                  /\ (s.cls = "BlogArchiveFeedEntries")
                        => (\E q \in Periods : Earlier(s.args, q))
        /\ \A j, k \in FeedSources :
              sources[j].source.args = sources[k].source.args => j = k
        /\ archive_feed_formats # <<>> =>
              \A q \in Periods : \E j \in FeedSources : sources[j].source.args = q

\* Monthly archives of a blog whose entries are not in the order of their
\* timestamps, of three months: the current feed of the last month and
\* the archive feeds of the two months before it were made.
C30_Witness ==
    /\ pc = "fed"
    /\ config.archive_feeds = "month"
    /\ config.index_formats = <<"atom", "html">>
    /\ Len(all_entries) = 4
    /\ all_entries[1].timestamp = <<2, 1, 1>>
    /\ all_entries[2].timestamp = <<1, 1, 1>>
    /\ all_entries[3].timestamp = <<2, 1, 1>>
    /\ all_entries[4].timestamp = <<1, 2, 1>>
    /\ Cardinality(FeedSources) = 3
    /\ sources[1].source.cls = "BlogCurrentFeedEntries"
    /\ sources[1].source.args = <<2, 1>>
    /\ sources[1].source.argindex = 2
    /\ sources[Len(sources)].source.cls = "BlogArchiveFeedEntries"
    /\ sources[Len(sources)].source.args = <<1, 2>>

====
